---- MODULE Spec2Model ----
(***************************************************************************)
(* TSAP Club: the statistics aggregation and leaderboard cache of          *)
(* src/server.js, with the user store of src/db.js; the recommendation     *)
(* engine and the milestone tables of src/recommendations.js; the club     *)
(* sync, activity log and aggregator of src/server/utils.                  *)
(*                                                                         *)
(* Node runs one callback at a time, so an action is the code that runs    *)
(* between two awaits: from the resumption of an awaited promise to the    *)
(* next await, return or throw.                                            *)
(***************************************************************************)
EXTENDS Integers, Sequences, FiniteSets, Bags, TLC

\* --------------------------------------------------------------------------
\* Bounds of the model
\* --------------------------------------------------------------------------
MaxUsers == 2         \* users in the store
MaxTicks == 1         \* idle periods in one behaviour
MaxSubs == 2          \* submissions in one user.status answer
StartNow == 1000000   \* Date.now() at process start, ms (any value beyond the window)
MaxCalls == 3         \* calls of getRecommendations in one behaviour
MaxRecalcs == 3       \* calls of calculateClubMilestones in one behaviour
MaxCount == 1600      \* largest solved-count of a member
MaxSyncs == 3         \* calls of performFullSync in one behaviour
MaxWrites == 1        \* writes to the members of the database in one behaviour
MaxUpdates == 2       \* calls of updateMemberData in one behaviour
MaxLogs == 52         \* calls of logActivity in one behaviour of the log on its own
MaxCfSubs == 3        \* submissions in the user.status answer of a statistics fetch on its own

\* --------------------------------------------------------------------------
\* Program constants
\* --------------------------------------------------------------------------
STALE_MS == 15 * 60 * 1000     \* server.js:518
DELAY_MS == 500                \* server.js:63
STARTUP_MS == 5000             \* server.js:105
HOUR_MS == 60 * 60 * 1000      \* recommendations.js:10
MAX_ACTIVITIES == 50           \* activityLogger.js:13
SLICE_END == 5                 \* recommendations.js:70
DISPLAY_LIMIT == 10            \* activityLogger.js:14

VARIABLES
  firebaseActive,   \* db.js isFirebaseActive(): the store is the Realtime Database
  users,            \* db.js users / the records under 'users' in the database
  now,              \* Date.now()
  ticks,            \* clock advances so far
  leaderboardCache, \* server.js leaderboardCache {data, lastUpdated, isUpdating}
  timerPending,     \* setTimeout(updateGlobalLeaderboard, 5000) not fired yet
  execs,            \* the executions of updateGlobalLeaderboard that went past its guard,
                    \* in starting order: [pc, allUsers, idx, results, delayUntil]
  stamps,           \* assignments of leaderboardCache.lastUpdated
  fetchCalls,       \* calls of fetchCodeforcesStats made by the leaderboard refresh
  response,         \* the answer GET /api/leaderboard sent in the last step, sent FALSE if none
  readStarted,      \* the leaderboard read of the last step started a refresh
  aggPc,            \* position of a dashboard request in aggregateStatsForHandles
  handles,          \* its argument
  cfP, lcP, ccP,    \* the three promises of its Promise.all
  aggOut,           \* what aggregateStatsForHandles settled with
  ext,              \* how the external call(s) of each fetcher ended, and under calls
                    \* each of the three Codeforces calls by its kind: "none" (no call
                    \* or no answer yet), "ok", "notfound", "transport" or "parse"
  problemSetCache,  \* recommendations.js problemSetCache {problems, lastUpdated}
  recStarted,       \* calls of getRecommendations so far
  recWaiting,       \* the calls that await their catalog fetch: the bag of their arguments
  fetchLog,         \* the catalog fetches issued so far: [at, succeededBefore]
  recOut,           \* what a call of getRecommendations settled with in the last step
  clubCount,        \* totalProblemsSolved of the last call of calculateClubMilestones
  prevCount,        \* the count of the call before it
  clubPrev,         \* its existingMilestones argument
  clubCurr,         \* its result
  clubNewly,        \* getNewlyAchievedMilestones(clubPrev, clubCurr)
  recalcs,          \* calls of calculateClubMilestones so far
  memberCount,      \* problemsSolved of a member
  memberOut,        \* the result of calculateMemberMilestone for it, once called
  members,          \* the records under 'members' in the database, as fetchAllMembers
                    \* lists them
  membersWrites,    \* writes to them so far
  cachedClubData,   \* activityLogger.js cachedClubData
  lastSyncTime,     \* activityLogger.js lastSyncTime, 0 for null
  activities,       \* activityLogger.js activities, newest first
  savedClubData,    \* the value under 'clubData' in the database
  syncStarted,      \* calls of performFullSync so far
  syncFetching,     \* the calls that await fetchAllMembers
  syncSaving,       \* the calls that await saveClubData: the bag of their clubData
  syncOut,          \* what the last step of a sync computed or returned
  upd,              \* the call of updateMemberData in progress: its position pc, its
                    \* arguments and locals, and the steps it has taken so far
  updStarted,       \* calls of updateMemberData so far
  logged,           \* calls of logActivity so far
  recent,           \* what getRecentActivities returned in the last step
  statusResult,     \* statusJson.result, the submissions fetchCodeforcesStats is given
  cfStats,          \* the statistics fetchCodeforcesStats computed from it
  got,              \* what the last call of getClubData did: its argument, the path
                    \* it took and, from the cache, the value it returned
  getStarted,       \* calls of getClubData so far
  bandStats,        \* the userStats the growth band is computed for
  bandOut,          \* the band and the candidates getRecommendations computed for it
  usersRef,         \* the records under 'users' in the Realtime Database, one per id
  usersArray,       \* db.js users, the in-memory array
  nextUserId,       \* db.js nextUserId
  dbInit,           \* the call db.init() of server.js:39: its position and locals
  reg               \* the register requests: position and locals of each

lbVars == <<firebaseActive, users, now, ticks, leaderboardCache, timerPending, execs,
            stamps, fetchCalls, response, readStarted>>
aggVars == <<aggPc, handles, cfP, lcP, ccP, aggOut, ext>>
recVars == <<problemSetCache, recStarted, recWaiting, fetchLog, recOut>>
mileVars == <<clubCount, prevCount, clubPrev, clubCurr, clubNewly, recalcs, memberCount,
              memberOut>>
syncVars == <<members, membersWrites, cachedClubData, lastSyncTime, activities, savedClubData,
              syncStarted, syncFetching, syncSaving, syncOut>>
updVars == <<upd, updStarted>>
logVars == <<logged, recent>>
cfVars == <<statusResult, cfStats>>
getVars == <<got, getStarted>>
bandVars == <<bandStats, bandOut>>
dbVars == <<usersRef, usersArray, nextUserId, dbInit, reg>>
vars == <<lbVars, aggVars, recVars, mileVars, syncVars, updVars, logVars, cfVars, getVars, bandVars, dbVars>>

\* --------------------------------------------------------------------------
\* External answers of the Codeforces API
\* --------------------------------------------------------------------------
NULL == [kind |-> "null"]
THROWN == [kind |-> "throw"]

\* problem.tags: an array of tags, or a field that is no array
Tags(items) == [array |-> TRUE, items |-> items]
NoTags == [array |-> FALSE, items |-> <<>>]

\* one problem of a submission; contestId 0 and index "" stand for a missing field
Sum == [contestId |-> 1, index |-> "A", name |-> "Sum", tags |-> Tags(<<"dp">>)]
Path == [contestId |-> 1, index |-> "B", name |-> "Path", tags |-> Tags(<<"graphs", "dp">>)]
Gym == [contestId |-> 0, index |-> "", name |-> "Gym", tags |-> NoTags]
Problems == {Sum, Path, Gym}
Verdicts == {"OK", "WRONG_ANSWER"}
\* 2023-11-14T22:13:20Z
SubmittedAt == 1700000000
Submissions == [problem : Problems, verdict : Verdicts, creationTimeSeconds : {SubmittedAt}]

RECURSIVE SeqsUpTo(_, _)
SeqsUpTo(S, n) ==
  IF n = 0 THEN {<<>>}
  ELSE LET shorter == SeqsUpTo(S, n - 1)
       IN shorter \cup { Append(s, x) : s \in {t \in shorter : Len(t) = n - 1}, x \in S }

SubmissionLists == SeqsUpTo(Submissions, MaxSubs)
\* user.rating results: the newRating of each rating update, oldest first
RatingLists == { <<>>, <<1500, 1200>> }

\* one HTTP call: the body parsed with status OK, parsed with another status,
\* a transport error (fetch rejects) or a body that res.json() cannot parse
CallKinds == {"OK", "FAILED", "neterr", "badjson"}
\* only an answer with status OK has a result that is read (server.js:184-185)
InfoAnswers == [kind : CallKinds]
RatingAnswers ==
  [kind : {"OK"}, result : RatingLists] \cup [kind : CallKinds \ {"OK"}, result : {<<>>}]
StatusAnswers ==
  [kind : {"OK"}, result : SubmissionLists] \cup [kind : CallKinds \ {"OK"}, result : {<<>>}]
CfAnswers == [info : InfoAnswers, rating : RatingAnswers, status : StatusAnswers]

\* the answers the leaderboard refresh is run against: every way the info call
\* can fail, an unrated user with one solved problem, and a rated user with none
okSubmission == [problem |-> Sum, verdict |-> "OK", creationTimeSeconds |-> SubmittedAt]
LeaderboardAnswers ==
  { [info |-> [kind |-> "OK"], rating |-> [kind |-> "OK", result |-> <<>>],
     status |-> [kind |-> "OK", result |-> <<okSubmission>>]],
    [info |-> [kind |-> "OK"], rating |-> [kind |-> "OK", result |-> <<1500, 1200>>],
     status |-> [kind |-> "OK", result |-> <<>>]] }
  \cup
  { [info |-> [kind |-> c], rating |-> [kind |-> "OK", result |-> <<>>],
     status |-> [kind |-> "OK", result |-> <<>>]] : c \in CallKinds \ {"OK"} }

\* --------------------------------------------------------------------------
\* fetchCodeforcesStats (server.js:163-257)
\* --------------------------------------------------------------------------
\* `${problem.contestId || "custom"}-${problem.index || problem.name}`
problemKey(problem) ==
  << IF problem.contestId = 0 THEN "custom" ELSE ToString(problem.contestId),
     IF problem.index = "" THEN problem.name ELSE problem.index >>

\* a JavaScript quotient a / b, kept exact as a fraction
Frac(a, b) == [num |-> a, den |-> b]
FracEq(x, y) == x.num * y.den = y.num * x.den

\* toDateKey (server.js:155-161): the UTC calendar date of a time in seconds
\* since 1970-01-01T00:00:00Z, by the proleptic Gregorian calendar that
\* Date uses; [year, month, day] stands for the text "YYYY-MM-DD"
toDateKey(timestampSeconds) ==
  LET z == (timestampSeconds \div 86400) + 719468
      era == z \div 146097
      doe == z - era * 146097
      yoe == (doe - (doe \div 1460) + (doe \div 36524) - (doe \div 146096)) \div 365
      doy == doe - (365 * yoe + (yoe \div 4) - (yoe \div 100))
      mp == (5 * doy + 2) \div 153
      day == doy - ((153 * mp + 2) \div 5) + 1
      month == IF mp < 10 THEN mp + 3 ELSE mp - 9
      year == yoe + era * 400 + (IF month <= 2 THEN 1 ELSE 0)
  IN [year |-> year, month |-> month, day |-> day]

\* the tags counted by the loop of server.js:194-223, in the order they are
\* counted: those of every accepted submission that carries a problem
RECURSIVE countedTags(_)
countedTags(submissions) ==
  IF submissions = <<>> THEN <<>>
  ELSE LET sub == Head(submissions)
       IN (IF sub.problem # NULL /\ sub.verdict = "OK" /\ sub.problem.tags.array
           THEN sub.problem.tags.items ELSE <<>>)
          \o countedTags(Tail(submissions))

\* the keys of an object in insertion order: each element at its first place
RECURSIVE firstPlaces(_)
firstPlaces(list) ==
  IF list = <<>> THEN <<>>
  ELSE LET front == firstPlaces(SubSeq(list, 1, Len(list) - 1))
           last == list[Len(list)]
       IN IF \E i \in DOMAIN front : front[i] = last THEN front ELSE Append(front, last)

\* Array.prototype.sort((a, b) => b.solved - a.solved), which is stable
RECURSIVE sortBySolved(_)
sortBySolved(list) ==
  IF list = <<>> THEN <<>>
  ELSE LET front == sortBySolved(SubSeq(list, 1, Len(list) - 1))
           last == list[Len(list)]
           before == Cardinality({ i \in DOMAIN front : front[i].solved >= last.solved })
       IN SubSeq(front, 1, before) \o <<last>> \o SubSeq(front, before + 1, Len(front))

\* tagCounts as Object.entries lists it, mapped and sorted (server.js:215-219, 242-244)
tagStrengths(submissions) ==
  LET counted == countedTags(submissions)
      tags == firstPlaces(counted)
  IN sortBySolved([ i \in DOMAIN tags |->
                      [ tag |-> tags[i],
                        solved |-> Cardinality({ k \in DOMAIN counted :
                                                   counted[k] = tags[i] }) ] ])

\* the object fetchCodeforcesStats builds from the parsed submissions and rating updates
cfStatsObject_CountAll(handle, submissions, ratingUpdates) ==
  LET withProblem == { i \in 1..Len(submissions) : submissions[i].problem # NULL }
      accepted == { i \in withProblem : submissions[i].verdict = "OK" }
      solvedSet == { problemKey(submissions[i].problem) : i \in accepted }
      acceptedCount == Cardinality(accepted)
      totalSubmissions == Len(submissions)
      dateKeys == { toDateKey(submissions[i].creationTimeSeconds) : i \in accepted }
  IN [ kind |-> "stats",
       platform |-> "codeforces",
       handle |-> handle,
       totalProblemsSolved |-> Cardinality(solvedSet),
       submissionAccuracy |->
         IF totalSubmissions > 0 THEN Frac(acceptedCount, totalSubmissions) ELSE NULL,
       ratingHistory |-> [ i \in 1..Len(ratingUpdates) |-> [rating |-> ratingUpdates[i]] ],
       tagStrengths |-> tagStrengths(submissions),
       solvedProblems |-> solvedSet,
       activityCalendar |->
         [ dateKey \in dateKeys |->
             Cardinality({ i \in accepted :
                             toDateKey(submissions[i].creationTimeSeconds) = dateKey }) ] ]
cfStatsObject(handle, submissions, ratingUpdates) ==
  LET withProblem == { i \in 1..Len(submissions) : submissions[i].problem # NULL }
      accepted == { i \in withProblem : submissions[i].verdict = "OK" }
      solvedSet == { problemKey(submissions[i].problem) : i \in accepted }
      acceptedCount == Cardinality(accepted)
      totalSubmissions == Cardinality(withProblem)
      dateKeys == { toDateKey(submissions[i].creationTimeSeconds) : i \in accepted }
  IN [ kind |-> "stats",
       platform |-> "codeforces",
       handle |-> handle,
       totalProblemsSolved |-> Cardinality(solvedSet),
       submissionAccuracy |->
         IF totalSubmissions > 0 THEN Frac(acceptedCount, totalSubmissions) ELSE NULL,
       ratingHistory |-> [ i \in 1..Len(ratingUpdates) |-> [rating |-> ratingUpdates[i]] ],
       tagStrengths |-> tagStrengths(submissions),
       solvedProblems |-> solvedSet,
       activityCalendar |->
         [ dateKey \in dateKeys |->
             Cardinality({ i \in accepted :
                             toDateKey(submissions[i].creationTimeSeconds) = dateKey }) ] ]

\* what a call fetchCodeforcesStats(handle) settles with when the three HTTP
\* calls answer ans: NULL, THROWN or the statistics object
fetchCodeforcesStats(handle, ans) ==
  IF handle = "" THEN NULL
  ELSE IF \E c \in {"info", "rating", "status"} : ans[c].kind = "neterr" THEN THROWN
  ELSE IF \E c \in {"info", "rating", "status"} : ans[c].kind = "badjson" THEN THROWN
  ELSE IF ans.info.kind # "OK" THEN THROWN
  ELSE cfStatsObject(handle,
         IF ans.status.kind = "OK" THEN ans.status.result ELSE <<>>,
         IF ans.rating.kind = "OK" THEN ans.rating.result ELSE <<>>)

\* --------------------------------------------------------------------------
\* fetchLeetCodeStats (server.js:259-315) and fetchCodechefStats (server.js:317-354)
\* --------------------------------------------------------------------------
\* the GraphQL call: a matched user with its acSubmissionNum "All" count, no
\* matched user, a matched user without submitStats, a transport error, or a
\* body that is not JSON
LcAnswers ==
  { [kind |-> "user", count |-> c] : c \in {0, 3} }
  \cup { [kind |-> k, count |-> 0] : k \in {"nouser", "malformed", "neterr", "badjson"} }

fetchLeetCodeStats(username, ans) ==
  IF username = "" THEN NULL
  ELSE IF ans.kind \in {"neterr", "badjson"} THEN NULL     \* catch, server.js:311-314
  ELSE IF ans.kind = "nouser" THEN NULL                    \* server.js:295-298
  ELSE IF ans.kind = "malformed" THEN NULL                 \* TypeError at server.js:300, caught
  ELSE [ kind |-> "stats",
         platform |-> "leetcode",
         handle |-> username,
         totalProblemsSolved |-> ans.count,
         supported |-> TRUE ]

\* the profile page: the number inside each fragment the patterns look for,
\* -1 when the fragment is not on the page; or a transport error
CcAnswers ==
  { [kind |-> "page", ratingNumber |-> r, fullySolved |-> n] : r \in {-1, 1650}, n \in {-1, 5} }
  \cup { [kind |-> "neterr", ratingNumber |-> -1, fullySolved |-> -1] }

fetchCodechefStats(username, ans) ==
  IF username = "" THEN NULL
  ELSE IF ans.kind = "neterr"
       THEN [ kind |-> "marker",
              platform |-> "codechef",
              handle |-> username,
              error |-> "Failed to scrape",
              supported |-> FALSE ]
       ELSE [ kind |-> "stats",
              platform |-> "codechef",
              handle |-> username,
              rating |-> IF ans.ratingNumber >= 0 THEN ans.ratingNumber ELSE 0,
              totalProblemsSolved |-> IF ans.fullySolved >= 0 THEN ans.fullySolved ELSE 0,
              supported |-> TRUE ]

\* --------------------------------------------------------------------------
\* aggregateStatsForHandles (server.js:356-389)
\* --------------------------------------------------------------------------
\* p.totalProblemsSolved || 0
solvedOrZero(p) == IF "totalProblemsSolved" \in DOMAIN p THEN p.totalProblemsSolved ELSE 0

sumSolved_FirstOnly(platforms) ==
  IF platforms = <<>> THEN 0 ELSE solvedOrZero(platforms[1])

RECURSIVE sumSolved(_)
\* platforms.reduce((sum, p) => sum + (p.totalProblemsSolved || 0), 0)
sumSolved(platforms) ==
  IF platforms = <<>> THEN 0
  ELSE sumSolved(SubSeq(platforms, 1, Len(platforms) - 1)) + solvedOrZero(platforms[Len(platforms)])

\* [cf, lc, cc].filter(Boolean)
filterBoolean(list) == SelectSeq(list, LAMBDA p : p # NULL)

aggregatedAccuracyOf_NoDivide(cf) ==
  IF cf # NULL /\ cf.submissionAccuracy # NULL /\ solvedOrZero(cf) > 0
  THEN Frac(cf.submissionAccuracy.num * solvedOrZero(cf), cf.submissionAccuracy.den)
  ELSE NULL

\* server.js:369-375
aggregatedAccuracyOf(cf) ==
  IF cf # NULL /\ cf.submissionAccuracy # NULL
  THEN LET totalAccepted == [num |-> cf.submissionAccuracy.num * solvedOrZero(cf),
                             den |-> cf.submissionAccuracy.den]
           totalSubmissions == solvedOrZero(cf)
       IN IF totalSubmissions > 0
          THEN Frac(totalAccepted.num, totalAccepted.den * totalSubmissions)
          ELSE NULL
  ELSE NULL

RECURSIVE insertEntry(_, _)
insertEntry(sorted, entry) ==
  IF sorted = <<>> THEN <<entry>>
  ELSE LET last == sorted[Len(sorted)]
       IN IF last.totalProblemsSolved >= entry.totalProblemsSolved THEN Append(sorted, entry)
          ELSE Append(insertEntry(SubSeq(sorted, 1, Len(sorted) - 1), entry), last)

RECURSIVE leaderboardEntries(_)
\* server.js:377-381
leaderboardEntries(platforms) ==
  IF platforms = <<>> THEN <<>>
  ELSE LET p == platforms[Len(platforms)]
       IN insertEntry(leaderboardEntries(SubSeq(platforms, 1, Len(platforms) - 1)),
                      [platform |-> p.platform, handle |-> p.handle,
                       totalProblemsSolved |-> solvedOrZero(p)])

\* the object aggregateStatsForHandles returns for the three fetch results
aggregate(cf, lc, cc) ==
  LET platforms == filterBoolean(<<cf, lc, cc>>)
  IN [ kind |-> "aggregate",
       totalProblemsSolved |-> sumSolved(platforms),
       aggregatedAccuracy |-> aggregatedAccuracyOf(cf),
       platforms |-> platforms,
       leaderboardByProblemsSolved |-> leaderboardEntries(platforms) ]

\* a promise: not settled yet, fulfilled with a value, or rejected
Unsettled == [state |-> "pending"]
Fulfilled(v) == [state |-> "fulfilled", value |-> v]
Rejected == [state |-> "rejected"]
settle(outcome) == IF outcome = THROWN THEN Rejected ELSE Fulfilled(outcome)

\* how the external calls of a fetcher ended
cfEnding(ans) ==
  IF \E c \in {"info", "rating", "status"} : ans[c].kind = "neterr" THEN "transport"
  ELSE IF \E c \in {"info", "rating", "status"} : ans[c].kind = "badjson" THEN "parse"
  ELSE IF ans.info.kind # "OK" THEN "notfound"
  ELSE "ok"
lcEnding(ans) ==
  CASE ans.kind = "neterr" -> "transport"
    [] ans.kind \in {"badjson", "malformed"} -> "parse"
    [] ans.kind = "nouser" -> "notfound"
    [] OTHER -> "ok"
ccEnding(ans) == IF ans.kind = "neterr" THEN "transport" ELSE "ok"

HandleSets == [codeforces : {"", "tourist"}, leetcode : {"", "lc_user"}, codechef : {"", "cc_user"}]

\* a dashboard request calls aggregateStatsForHandles(h): the three fetchers
\* are called (server.js:357-361); one with an empty handle has returned null
AggregateCall_AlwaysFetch(h) ==
  /\ aggPc = "idle"
  /\ handles' = h
  /\ cfP' = Unsettled
  /\ lcP' = Unsettled
  /\ ccP' = Unsettled
  /\ aggPc' = "awaiting"
  /\ UNCHANGED <<aggOut, ext, lbVars, recVars, mileVars, syncVars, updVars, logVars, cfVars, getVars, bandVars, dbVars>>
AggregateCall(h) ==
  /\ aggPc = "idle"
  /\ handles' = h
  /\ cfP' = IF h.codeforces = "" THEN Fulfilled(NULL) ELSE Unsettled
  /\ lcP' = IF h.leetcode = "" THEN Fulfilled(NULL) ELSE Unsettled
  /\ ccP' = IF h.codechef = "" THEN Fulfilled(NULL) ELSE Unsettled
  /\ aggPc' = "awaiting"
  /\ UNCHANGED <<aggOut, ext, lbVars, recVars, mileVars, syncVars, updVars, logVars, cfVars, getVars, bandVars, dbVars>>

CfSettle(ans) ==
  /\ cfP = Unsettled /\ aggPc # "idle"
  /\ cfP' = settle(fetchCodeforcesStats(handles.codeforces, ans))
  /\ ext' = [ext EXCEPT !.codeforces = cfEnding(ans),
                        !.calls = [c \in {"info", "rating", "status"} |-> ans[c].kind]]
  /\ UNCHANGED <<aggPc, handles, lcP, ccP, aggOut, lbVars, recVars, mileVars, syncVars, updVars, logVars, cfVars, getVars, bandVars, dbVars>>

LcSettle(ans) ==
  /\ lcP = Unsettled /\ aggPc # "idle"
  /\ lcP' = settle(fetchLeetCodeStats(handles.leetcode, ans))
  /\ ext' = [ext EXCEPT !.leetcode = lcEnding(ans)]
  /\ UNCHANGED <<aggPc, handles, cfP, ccP, aggOut, lbVars, recVars, mileVars, syncVars, updVars, logVars, cfVars, getVars, bandVars, dbVars>>

CcSettle(ans) ==
  /\ ccP = Unsettled /\ aggPc # "idle"
  /\ ccP' = settle(fetchCodechefStats(handles.codechef, ans))
  /\ ext' = [ext EXCEPT !.codechef = ccEnding(ans)]
  /\ UNCHANGED <<aggPc, handles, cfP, lcP, aggOut, lbVars, recVars, mileVars, syncVars, updVars, logVars, cfVars, getVars, bandVars, dbVars>>

\* Promise.all rejects as soon as one of the three promises rejects, and the
\* await at server.js:357 throws out of aggregateStatsForHandles
AggregateThrow ==
  /\ aggPc = "awaiting"
  /\ Rejected \in {cfP, lcP, ccP}
  /\ aggOut' = Rejected
  /\ aggPc' = "done"
  /\ UNCHANGED <<handles, cfP, lcP, ccP, ext, lbVars, recVars, mileVars, syncVars, updVars, logVars, cfVars, getVars, bandVars, dbVars>>

\* Promise.all fulfils when the three promises have; server.js:363-388 runs
AggregateReturn ==
  /\ aggPc = "awaiting"
  /\ \A p \in {cfP, lcP, ccP} : p.state = "fulfilled"
  /\ aggOut' = Fulfilled(aggregate(cfP.value, lcP.value, ccP.value))
  /\ aggPc' = "done"
  /\ UNCHANGED <<handles, cfP, lcP, ccP, ext, lbVars, recVars, mileVars, syncVars, updVars, logVars, cfVars, getVars, bandVars, dbVars>>

\* --------------------------------------------------------------------------
\* The user store (db.js)
\* --------------------------------------------------------------------------
HandleOf(id) == <<"ravisharma-09", "AarpanLohora", "cf3", "cf4", "cf5">>[id]
NameOf(id) == <<"Ravi Sharma", "Aarpan Lohora", "member3", "member4", "member5">>[id]

\* db.js:10-27
defaultUsers ==
  << [id |-> 1, name |-> NameOf(1),
      handles |-> [codeforces |-> HandleOf(1), leetcode |-> "", codechef |-> "ravisharma_09"]],
     [id |-> 2, name |-> NameOf(2),
      handles |-> [codeforces |-> HandleOf(2), leetcode |-> "", codechef |-> "aarpanlohora"]] >>

\* a user as the register handler stores it (server.js:406-416): handles is
\* always present, each handle possibly ""
RegisteredUser(id, linked) ==
  [id |-> id, name |-> NameOf(id),
   handles |-> [codeforces |-> IF linked THEN HandleOf(id) ELSE "", leetcode |-> "", codechef |-> ""]]

\* a record under 'users' in the database that has no handles field
BareUser(id) == [id |-> id, name |-> NameOf(id)]

\* the records Object.values(snap.val()) can hold (db.js:90-92): whatever the
\* database contains
DbUserLists ==
  UNION { { [ i \in 1..n |-> IF shape[i] = "bare" THEN BareUser(i)
                             ELSE RegisteredUser(i, shape[i] = "linked") ]
            : shape \in [1..n -> {"linked", "unlinked", "bare"}] }
          : n \in 0..(MaxUsers - 1) }

\* user.handles.codeforces (server.js:58) throws a TypeError when user.handles is undefined
HasHandles(user) == "handles" \in DOMAIN user
\* --------------------------------------------------------------------------
\* updateGlobalLeaderboard (server.js:48-102)
\* --------------------------------------------------------------------------
compareRows_RatingOnly(a, b) == b.rating - a.rating

\* the comparator of results.sort (server.js:93-96)
compareRows(a, b) ==
  IF b.rating # a.rating THEN b.rating - a.rating ELSE b.totalSolved - a.totalSolved

\* Array.prototype.sort is stable: row goes after every row that does not sort after it
RECURSIVE insertRow(_, _)
insertRow(sorted, row) ==
  IF sorted = <<>> THEN <<row>>
  ELSE LET last == sorted[Len(sorted)]
       IN IF compareRows(last, row) <= 0 THEN Append(sorted, row)
          ELSE Append(insertRow(SubSeq(sorted, 1, Len(sorted) - 1), row), last)

RECURSIVE sortRows(_)
sortRows(rows) ==
  IF rows = <<>> THEN <<>>
  ELSE insertRow(sortRows(SubSeq(rows, 1, Len(rows) - 1)), rows[Len(rows)])

RECURSIVE maxOf(_, _)
\* ratingHistory.reduce((max, r) => Math.max(max, r.rating), 0)
maxOf(history, acc) ==
  IF history = <<>> THEN acc
  ELSE maxOf(Tail(history), IF history[1].rating > acc THEN history[1].rating ELSE acc)

\* server.js:67-75
successRow(user, stats) ==
  [ userId |-> user.id,
    name |-> user.name,
    handle |-> user.handles.codeforces,
    platform |-> "codeforces",
    totalSolved |-> stats.totalProblemsSolved,
    rating |-> IF Len(stats.ratingHistory) > 0
               THEN stats.ratingHistory[Len(stats.ratingHistory)].rating ELSE 0,
    maxRating |-> maxOf(stats.ratingHistory, 0) ]

\* server.js:80-88
errorRow(user) ==
  [ userId |-> user.id,
    name |-> user.name,
    handle |-> user.handles.codeforces,
    platform |-> "codeforces",
    totalSolved |-> 0,
    rating |-> 0,
    error |-> "Failed to fetch" ]

pushRow_DropFailed(rows, user, outcome) ==
  IF outcome.kind = "stats" THEN Append(rows, successRow(user, outcome)) ELSE rows

\* the rows results holds after the fetch of user settled with outcome (server.js:65-89)
pushRow(rows, user, outcome) ==
  IF outcome.kind = "throw" THEN Append(rows, errorRow(user))
  ELSE IF outcome.kind = "stats" THEN Append(rows, successRow(user, outcome))
  ELSE rows

\* where the for loop (server.js:57-58) stops when it resumes at index i: at the
\* await of the next user with a Codeforces handle, at the TypeError of a user
\* without handles, or at the end of the list
RECURSIVE loopStop(_, _)
loopStop(list, i) ==
  IF i > Len(list) THEN [kind |-> "end", idx |-> i]
  ELSE IF ~HasHandles(list[i]) THEN [kind |-> "throw", idx |-> i]
  ELSE IF list[i].handles.codeforces = "" THEN loopStop(list, i + 1)
  ELSE [kind |-> "await", idx |-> i]

Running(e) == e.pc \in {"getUsers", "delay", "fetch"}

\* an execution that has ended ("returned" or "threw"); the list it iterated is
\* kept for the record, its other locals are gone
ended(how, list) == [pc |-> how, allUsers |-> list, idx |-> 0, results |-> <<>>, delayUntil |-> 0]

\* execution k resumes the loop at index i with the rows it has, and runs to its
\* next await, to the throw, or through the sort and the three assignments of
\* server.js:93-100
resumeLoop(k, list, i, rows) ==
  LET stop == loopStop(list, i)
      e == [execs[k] EXCEPT !.allUsers = list, !.idx = stop.idx, !.results = rows]
  IN CASE stop.kind = "await" ->
            /\ execs' = [execs EXCEPT ![k] = [e EXCEPT !.pc = "delay", !.delayUntil = now + DELAY_MS]]
            /\ UNCHANGED <<leaderboardCache, stamps>>
       [] stop.kind = "throw" ->
            /\ execs' = [execs EXCEPT ![k] = ended("threw", list)]
            /\ UNCHANGED <<leaderboardCache, stamps>>
       [] stop.kind = "end" ->
            /\ execs' = [execs EXCEPT ![k] = ended("returned", list)]
            /\ leaderboardCache' = [data |-> sortRows(rows), lastUpdated |-> now, isUpdating |-> FALSE]
            /\ stamps' = stamps + 1

\* a step that is not a leaderboard read sends no leaderboard answer
NoAnswer == [sent |-> FALSE]
noResponse == response' = NoAnswer /\ readStarted' = FALSE

\* server.js:49
guardPasses_Always == TRUE
guardPasses == ~leaderboardCache.isUpdating

\* a call of updateGlobalLeaderboard up to its first await (server.js:49-55):
\* it returns at the guard, or sets isUpdating and awaits db.getAllUsers()
startUpdate ==
  IF guardPasses
  THEN /\ leaderboardCache' = [leaderboardCache EXCEPT !.isUpdating = TRUE]
       /\ execs' = Append(execs, [pc |-> "getUsers", allUsers |-> <<>>, idx |-> 0,
                                  results |-> <<>>, delayUntil |-> 0])
  ELSE UNCHANGED <<leaderboardCache, execs>>

\* a timer fires at its due time, or at the present time when that is later
later(t, due) == IF t < due THEN due ELSE t

\* setTimeout(updateGlobalLeaderboard, 5000) fires (server.js:105)
TimerFire ==
  /\ timerPending
  /\ now' = later(now, StartNow + STARTUP_MS)
  /\ timerPending' = FALSE
  /\ startUpdate
  /\ UNCHANGED <<firebaseActive, users, ticks, stamps, fetchCalls, aggVars, recVars, mileVars, syncVars, updVars, logVars, cfVars, getVars, bandVars, dbVars>> /\ noResponse

\* server.js:518
isStale_Inclusive == now - leaderboardCache.lastUpdated >= STALE_MS
isStale == now - leaderboardCache.lastUpdated > STALE_MS

\* GET /api/leaderboard (server.js:516-527)
ReadLeaderboard ==
  /\ IF isStale THEN startUpdate ELSE UNCHANGED <<leaderboardCache, execs>>
  /\ response' = [sent |-> TRUE,
                  updatedAt |-> leaderboardCache'.lastUpdated,
                  isUpdating |-> leaderboardCache'.isUpdating,
                  data |-> leaderboardCache'.data]
  /\ readStarted' = (Len(execs') > Len(execs))
  /\ UNCHANGED <<firebaseActive, users, now, ticks, timerPending, stamps, fetchCalls, aggVars, recVars, mileVars, syncVars, updVars, logVars, cfVars, getVars, bandVars, dbVars>>

\* await db.getAllUsers() resolves (server.js:55, db.js:87-96); the loop runs to
\* its first stop
GetAllUsersReturn(k) ==
  /\ execs[k].pc = "getUsers"
  /\ resumeLoop(k, users, 1, execs[k].results)
  /\ UNCHANGED <<firebaseActive, users, now, ticks, timerPending, fetchCalls, aggVars, recVars, mileVars, syncVars, updVars, logVars, cfVars, getVars, bandVars, dbVars>> /\ noResponse

\* the 500 ms pause ends and fetchCodeforcesStats is called (server.js:63-65)
DelayDone_NoPause(k) ==
  /\ execs[k].pc = "delay"
  /\ now' = now
  /\ execs' = [execs EXCEPT ![k].pc = "fetch"]
  /\ fetchCalls' = fetchCalls + 1
  /\ UNCHANGED <<firebaseActive, users, ticks, leaderboardCache, timerPending, stamps,
                 aggVars, recVars, mileVars, syncVars, updVars, logVars, cfVars, getVars, bandVars, dbVars>> /\ noResponse
DelayDone(k) ==
  /\ execs[k].pc = "delay"
  /\ now' = later(now, execs[k].delayUntil)
  /\ execs' = [execs EXCEPT ![k].pc = "fetch"]
  /\ fetchCalls' = fetchCalls + 1
  /\ UNCHANGED <<firebaseActive, users, ticks, leaderboardCache, timerPending, stamps,
                 aggVars, recVars, mileVars, syncVars, updVars, logVars, cfVars, getVars, bandVars, dbVars>> /\ noResponse

\* await fetchCodeforcesStats(...) settles; the row is pushed and the loop goes on
\* (server.js:65-90)
FetchSettle(k, ans) ==
  /\ execs[k].pc = "fetch"
  /\ LET e == execs[k]
         user == e.allUsers[e.idx]
         outcome == fetchCodeforcesStats(user.handles.codeforces, ans)
     IN resumeLoop(k, e.allUsers, e.idx + 1, pushRow(e.results, user, outcome))
  /\ UNCHANGED <<firebaseActive, users, now, ticks, timerPending, fetchCalls, aggVars, recVars, mileVars, syncVars, updVars, logVars, cfVars, getVars, bandVars, dbVars>> /\ noResponse

\* db.createUser called by the register handler (db.js:71-85, server.js:406-416).
\* Without Firebase getAllUsers returns the users array itself (db.js:95), so a
\* running refresh iterates the array that push extends.
CreateUser(linked) ==
  /\ Len(users) < MaxUsers
  /\ LET newUser == RegisteredUser(Len(users) + 1, linked)
     IN /\ users' = Append(users, newUser)
        /\ execs' = [ k \in DOMAIN execs |->
                        IF ~firebaseActive /\ execs[k].pc \in {"delay", "fetch"}
                        THEN [execs[k] EXCEPT !.allUsers = Append(@, newUser)]
                        ELSE execs[k] ]
  /\ UNCHANGED <<firebaseActive, now, ticks, leaderboardCache, timerPending, stamps, fetchCalls,
                 aggVars, recVars, mileVars, syncVars, updVars, logVars, cfVars, getVars, bandVars, dbVars>> /\ noResponse

\* an idle period, with no refresh running: the staleness window exactly, or a
\* millisecond more (while a refresh runs, time advances with its pauses)
Deltas == {STALE_MS, STALE_MS + 1}
Tick(d) ==
  /\ ticks < MaxTicks
  /\ \A k \in DOMAIN execs : ~Running(execs[k])
  /\ now' = now + d
  /\ ticks' = ticks + 1
  /\ UNCHANGED <<firebaseActive, users, leaderboardCache, timerPending, execs, stamps, fetchCalls,
                 aggVars, recVars, mileVars, syncVars, updVars, logVars, cfVars, getVars, bandVars, dbVars>> /\ noResponse

InitLeaderboard ==
  /\ firebaseActive \in BOOLEAN
  /\ users \in IF firebaseActive THEN DbUserLists ELSE {defaultUsers}
  /\ now = StartNow
  /\ ticks = 0
  /\ leaderboardCache = [data |-> <<>>, lastUpdated |-> 0, isUpdating |-> FALSE]
  /\ timerPending = TRUE
  /\ execs = <<>>
  /\ stamps = 0
  /\ fetchCalls = 0
  /\ response = NoAnswer
  /\ readStarted = FALSE

InitAggIdle ==
  /\ aggPc = "idle"
  /\ handles = [codeforces |-> "", leetcode |-> "", codechef |-> ""]
  /\ cfP = Unsettled
  /\ lcP = Unsettled
  /\ ccP = Unsettled
  /\ aggOut = Unsettled
  /\ ext = [ codeforces |-> "none", leetcode |-> "none", codechef |-> "none",
              calls |-> [info |-> "none", rating |-> "none", status |-> "none"] ]

InitRecIdle ==
  /\ problemSetCache = [problems |-> <<>>, lastUpdated |-> 0]
  /\ recStarted = 0
  /\ recWaiting = EmptyBag
  /\ fetchLog = <<>>
  /\ recOut = [sent |-> FALSE]

InitSyncIdle ==
  /\ members = <<>>
  /\ membersWrites = 0
  /\ cachedClubData = NULL
  /\ lastSyncTime = 0
  /\ activities = <<>>
  /\ savedClubData = NULL
  /\ syncStarted = 0
  /\ syncFetching = 0
  /\ syncSaving = EmptyBag
  /\ syncOut = [step |-> "none"]

InitUpdIdle ==
  /\ upd = [pc |-> "idle"]
  /\ updStarted = 0

InitLogIdle ==
  /\ logged = 0
  /\ recent = [called |-> FALSE]

InitCfIdle ==
  /\ statusResult = <<>>
  /\ cfStats = [called |-> FALSE]

InitGetIdle ==
  /\ got = [called |-> FALSE]
  /\ getStarted = 0

InitBandIdle ==
  /\ bandStats = NULL
  /\ bandOut = [called |-> FALSE]

InitDbIdle ==
  /\ usersRef = {}
  /\ usersArray = <<>>
  /\ nextUserId = 1
  /\ dbInit = [pc |-> "idle"]
  /\ reg = <<>>

InitIdle3 ==
  InitUpdIdle /\ InitLogIdle /\ InitCfIdle /\ InitGetIdle /\ InitBandIdle /\ InitDbIdle

InitClubIdle ==
  /\ clubCount = 0
  /\ prevCount = 0
  /\ clubPrev = <<>>
  /\ clubCurr = <<>>
  /\ clubNewly = <<>>
  /\ recalcs = 0

InitMemberIdle ==
  /\ memberCount = 0
  /\ memberOut = [called |-> FALSE]

Init ==
  /\ InitLeaderboard /\ InitAggIdle /\ InitRecIdle /\ InitClubIdle /\ InitMemberIdle
  /\ InitIdle3
  /\ InitSyncIdle

Next ==
  \/ TimerFire
  \/ ReadLeaderboard
  \/ \E k \in DOMAIN execs : GetAllUsersReturn(k)
  \/ \E k \in DOMAIN execs : DelayDone(k)
  \/ \E k \in DOMAIN execs, ans \in LeaderboardAnswers : FetchSettle(k, ans)
  \/ \E linked \in BOOLEAN : CreateUser(linked)
  \/ \E d \in Deltas : Tick(d)

Spec == Init /\ [][Next]_vars

\* a dashboard request on its own: the leaderboard stays as constructed
InitAgg == Init /\ ~firebaseActive

NextAgg ==
  \/ \E h \in HandleSets : AggregateCall(h)
  \/ \E ans \in CfAnswers : CfSettle(ans)
  \/ \E ans \in LcAnswers : LcSettle(ans)
  \/ \E ans \in CcAnswers : CcSettle(ans)
  \/ AggregateThrow
  \/ AggregateReturn

SpecAgg == InitAgg /\ [][NextAgg]_vars
\* --------------------------------------------------------------------------
\* Leaderboard cache: properties
\* --------------------------------------------------------------------------
RunningExecs == { k \in DOMAIN execs : Running(execs[k]) }
ReturnedExecs == { k \in DOMAIN execs : execs[k].pc = "returned" }
\* the step is a leaderboard read / a firing of the startup timer
IsReadStep == response'.sent
IsTimerStep == timerPending /\ ~timerPending'

\* C1: single flight. At most one execution of updateGlobalLeaderboard is past
\* its guard and not ended; a read or timer trigger that finds isUpdating set
\* starts no execution, makes no fetch and leaves data and lastUpdated alone;
\* every pass that has left the refreshing state stamped lastUpdated exactly
\* once, and the pass in flight has not stamped it yet.
C1_NoOpWhileUpdating ==
  (leaderboardCache.isUpdating /\ (IsReadStep \/ IsTimerStep))
    => /\ execs' = execs
       /\ leaderboardCache' = leaderboardCache
       /\ fetchCalls' = fetchCalls
       /\ stamps' = stamps
C1_OnePassOneStamp ==
  /\ Cardinality(RunningExecs) <= 1
  /\ stamps = Len(execs) - (IF leaderboardCache.isUpdating THEN 1 ELSE 0)
  /\ stamps = Cardinality(ReturnedExecs)
C1_SingleFlight == [](C1_OnePassOneStamp) /\ [][C1_NoOpWhileUpdating]_vars

\* a read arrived during a refresh that had already fetched a member, and started nothing
C1_Witness ==
  /\ response.sent
  /\ ~readStarted
  /\ leaderboardCache.isUpdating
  /\ \E k \in DOMAIN execs : execs[k].pc = "fetch" /\ Len(execs[k].results) >= 1

\* C2: every refresh returns the cache to idle. Stated on finite runs: whenever
\* no execution of updateGlobalLeaderboard is running (each one has returned or
\* thrown), isUpdating is false.
C2_EndedRefreshIsIdle == (RunningExecs = {}) => ~leaderboardCache.isUpdating

\* C3: a leaderboard read is always possible and answers with the cache as it
\* is at the read; it starts one refresh, and reports isUpdating, exactly when
\* the cache is older than 15 minutes and isUpdating is not set, and starts
\* none when the cache is 15 minutes old or younger.
C3_ReadStep ==
  IsReadStep =>
    LET age == now - leaderboardCache.lastUpdated
        old == age > 15 * 60 * 1000
    IN /\ response'.data = leaderboardCache.data
       /\ response'.updatedAt = leaderboardCache.lastUpdated
       /\ leaderboardCache'.data = leaderboardCache.data
       /\ leaderboardCache'.lastUpdated = leaderboardCache.lastUpdated
       /\ (old /\ ~leaderboardCache.isUpdating) =>
             /\ Len(execs') = Len(execs) + 1
             /\ SubSeq(execs', 1, Len(execs)) = execs
             /\ execs'[Len(execs')].pc = "getUsers"
             /\ response'.isUpdating
             /\ readStarted'
       /\ (~old \/ leaderboardCache.isUpdating) =>
             /\ execs' = execs
             /\ response'.isUpdating = leaderboardCache.isUpdating
             /\ ~readStarted'
LastReturned == CHOOSE k \in ReturnedExecs : \A j \in ReturnedExecs : j <= k
C4_OneRowPerLinkedUser ==
  ReturnedExecs # {} =>
    LET list == execs[LastReturned].allUsers
        data == leaderboardCache.data
        linked == { i \in 1..Len(list) : list[i].handles.codeforces # "" }
    IN /\ Len(data) = Cardinality(linked)
       /\ \A i \in linked :
            Cardinality({ r \in 1..Len(data) : data[r].userId = list[i].id
                                                /\ data[r].handle = list[i].handles.codeforces }) = 1
       /\ \A r \in 1..Len(data) :
            /\ \E i \in linked : data[r].userId = list[i].id
            /\ "error" \in DOMAIN data[r] => data[r].totalSolved = 0 /\ data[r].rating = 0

\* a completed refresh in which a member's fetch failed and a later member's succeeded
C4_Witness ==
  /\ ReturnedExecs # {}
  /\ \E r1, r2 \in 1..Len(leaderboardCache.data) :
       /\ "error" \in DOMAIN leaderboardCache.data[r1]
       /\ "error" \notin DOMAIN leaderboardCache.data[r2]
       /\ leaderboardCache.data[r1].userId < leaderboardCache.data[r2].userId

\* C5: the cached data is always ordered by rating descending, then totalSolved
\* descending; data and lastUpdated change only in the one step that ends the
\* refreshing state, which stamps the present time; a read answers with the
\* cached pair.
IsRanked(data) ==
  \A i, j \in 1..Len(data) :
    i < j => \/ data[i].rating > data[j].rating
             \/ data[i].rating = data[j].rating /\ data[i].totalSolved >= data[j].totalSolved
C5_State ==
  /\ IsRanked(leaderboardCache.data)
  /\ response.sent => /\ response.data = leaderboardCache.data
                          /\ response.updatedAt = leaderboardCache.lastUpdated
C5_Step ==
  (leaderboardCache'.data # leaderboardCache.data
     \/ leaderboardCache'.lastUpdated # leaderboardCache.lastUpdated)
    => /\ leaderboardCache.isUpdating
       /\ ~leaderboardCache'.isUpdating
       /\ leaderboardCache'.lastUpdated = now
       /\ \E k \in RunningExecs : execs'[k].pc = "returned"
C5_SortedAtomicSnapshot == [](C5_State) /\ [][C5_Step]_vars

\* a read during a refresh that has rows collected answers with the previous
\* two-row snapshot
C5_Witness ==
  /\ response.sent
  /\ response.isUpdating
  /\ Len(response.data) >= 2
  /\ response.data[1].rating = response.data[2].rating
  /\ response.data[1].totalSolved > response.data[2].totalSolved
  /\ \E k \in RunningExecs : Len(execs[k].results) >= 1
\* --------------------------------------------------------------------------
\* Platform fetchers and aggregate: properties
\* --------------------------------------------------------------------------
Returned == aggOut.state = "fulfilled"
Platforms == aggOut.value.platforms
PlatformNames == {"codeforces", "leetcode", "codechef"}

\* C6: none of the three fetchers throws to its caller, whatever its external
\* calls do: no promise of a fetcher is ever rejected.
C6_FetchersNeverThrow == cfP # Rejected /\ lcP # Rejected /\ ccP # Rejected

\* C7: when the Codeforces fetch raises, aggregateStatsForHandles still returns
\* an aggregate, and the aggregate carries the LeetCode and CodeChef results
\* that succeeded.
C7_CodeforcesFailureIsolated ==
  (aggPc = "done" /\ cfP = Rejected) =>
     /\ Returned
     /\ \A p \in {lcP, ccP} :
          (p.state = "fulfilled" /\ p.value # NULL) =>
             \E i \in 1..Len(Platforms) : Platforms[i] = p.value

\* C8: once aggregateStatsForHandles has settled, every platform whose fetch
\* ended in a transport or parse failure has a record with a failure marker in
\* the aggregate's platforms list.
HasMarker(record) == "error" \in DOMAIN record
C8_FailedPlatformHasMarker ==
  aggPc = "done" =>
    \A pl \in PlatformNames :
      ext[pl] \in {"transport", "parse"} =>
        /\ Returned
        /\ \E i \in 1..Len(Platforms) : Platforms[i].platform = pl /\ HasMarker(Platforms[i])

\* the solved count a fetch result contributes: its count when it is a
\* statistics object, 0 when it is null or an error marker
Contribution(v) == IF v.kind = "stats" THEN v.totalProblemsSolved ELSE 0

\* C9: the aggregate's totalProblemsSolved is the sum of the solved counts of
\* the statistics objects among the three fetch results; null and the CodeChef
\* error marker contribute 0.
C9_TotalIsSumOfPresent ==
  Returned =>
    aggOut.value.totalProblemsSolved =
      Contribution(cfP.value) + Contribution(lcP.value) + Contribution(ccP.value)

\* CodeChef failed in transport, Codeforces and LeetCode succeeded with solved problems
C9_Witness ==
  /\ Returned
  /\ ccP.value.kind = "marker"
  /\ cfP.value.kind = "stats" /\ cfP.value.totalProblemsSolved = 2
  /\ lcP.value.kind = "stats" /\ lcP.value.totalProblemsSolved = 3
  /\ aggOut.value.totalProblemsSolved = 5

CfHasAccuracy == cfP.value.kind = "stats" /\ cfP.value.submissionAccuracy # NULL

\* C10 as stated: aggregatedAccuracy is non-null exactly when the Codeforces
\* record is present with a non-null submissionAccuracy, and then equals it.
C10_AccuracyIffCfAccuracy ==
  Returned =>
    /\ (aggOut.value.aggregatedAccuracy # NULL) <=> CfHasAccuracy
    /\ CfHasAccuracy => FracEq(aggOut.value.aggregatedAccuracy, cfP.value.submissionAccuracy)

\* C10 amended: aggregatedAccuracy is non-null exactly when the Codeforces
\* record is present with a non-null submissionAccuracy and at least one solved
\* problem, and then equals that accuracy, whatever LeetCode and CodeChef returned.
C10_AccuracyIffCfAccuracyAndSolved ==
  Returned =>
    LET weighted == CfHasAccuracy /\ cfP.value.totalProblemsSolved > 0
    IN /\ (aggOut.value.aggregatedAccuracy # NULL) <=> weighted
       /\ weighted => FracEq(aggOut.value.aggregatedAccuracy, cfP.value.submissionAccuracy)

\* an aggregate of three successful platforms whose Codeforces accuracy is 1/2
\* (one accepted and one rejected submission)
C10_Witness ==
  /\ Returned
  /\ CfHasAccuracy
  /\ cfP.value.submissionAccuracy = Frac(1, 2)
  /\ aggOut.value.aggregatedAccuracy # NULL
  /\ lcP.value.kind = "stats" /\ lcP.value.totalProblemsSolved = 3
  /\ ccP.value.kind = "stats" /\ ccP.value.totalProblemsSolved = 5

\* --------------------------------------------------------------------------
\* Recommendations (recommendations.js:1-78)
\* --------------------------------------------------------------------------
\* one problem of problemset.problems; contestId 0, index "" and rating 0 stand
\* for a missing field
CatalogProblem(contestId, index, name, rating) ==
  [contestId |-> contestId, index |-> index, name |-> name, rating |-> rating]

SmallCatalog ==
  << CatalogProblem(1, "A", "Sum", 1300), CatalogProblem(3, "B", "Hash", 1700) >>
BigCatalog ==
  << CatalogProblem(1, "A", "Sum", 1300), CatalogProblem(1, "B", "Path", 1600),
     CatalogProblem(0, "", "Gym", 1400),  CatalogProblem(2, "A", "Tree", 1500),
     CatalogProblem(2, "B", "Game", 1299), CatalogProblem(3, "A", "Sort", 1450),
     CatalogProblem(3, "B", "Hash", 1601), CatalogProblem(4, "A", "Draft", 0),
     CatalogProblem(4, "B", "Easy", 1000), CatalogProblem(5, "A", "Grid", 1350) >>
Catalogs == { <<>>, SmallCatalog, BigCatalog }

\* the answer of https://codeforces.com/api/problemset.problems
CatalogAnswers ==
  { [kind |-> "OK", problems |-> c] : c \in Catalogs }
  \cup { [kind |-> k, problems |-> <<>>] : k \in CallKinds \ {"OK"} }

\* the arguments getRecommendations is called with: nothing, a record of another
\* platform, Codeforces records that lack a field, and records as
\* fetchCodeforcesStats builds them
acceptedOf(problem) ==
  [problem |-> problem, verdict |-> "OK", creationTimeSeconds |-> SubmittedAt]
RecSubmissionLists ==
  { <<>>, <<okSubmission>>,
    <<acceptedOf(Gym)>> }
RecStats ==
  { NULL,
    [kind |-> "stats", platform |-> "leetcode", handle |-> "tourist",
     totalProblemsSolved |-> 7, supported |-> TRUE],
    [kind |-> "stats", platform |-> "codeforces", handle |-> "tourist",
     solvedProblems |-> {}],
    [kind |-> "stats", platform |-> "codeforces", handle |-> "tourist",
     ratingHistory |-> <<>>],
    cfStatsObject("tourist", <<>>, <<>>) }
  \cup { cfStatsObject("tourist", subs, <<1500, 1200>>) : subs \in RecSubmissionLists }

\* recommendations.js:10
cacheIsFresh ==
  /\ now - problemSetCache.lastUpdated < HOUR_MS
  /\ Len(problemSetCache.problems) > 0

\* recommendations.js:30
recognized(userStats) == userStats # NULL /\ userStats.platform = "codeforces"

\* recommendations.js:36-38
currentRating(userStats) ==
  IF Len(userStats.ratingHistory) > 0
  THEN userStats.ratingHistory[Len(userStats.ratingHistory)].rating
  ELSE 800
\* recommendations.js:42-43
minRating_NoFloor(userStats) == currentRating(userStats) + 100
minRating(userStats) ==
  LET r == currentRating(userStats) + 100 IN IF r > 800 THEN r ELSE 800
maxRating(userStats) ==
  LET r == currentRating(userStats) + 400 IN IF r < 3500 THEN r ELSE 3500

\* `${p.contestId}-${p.index}` (recommendations.js:61): a missing field prints
\* as "undefined"
pid(p) ==
  << IF p.contestId = 0 THEN "undefined" ELSE ToString(p.contestId),
     IF p.index = "" THEN "undefined" ELSE p.index >>

\* recommendations.js:53-66
candidatesOf(allProblems, userStats) ==
  LET solvedIds == userStats.solvedProblems
      keep(p) ==
        /\ ~(p.rating = 0 \/ p.rating < minRating(userStats) \/ p.rating > maxRating(userStats))
        /\ pid(p) \notin solvedIds
  IN SelectSeq(allProblems, keep)

\* the members of a set of numbers, smallest first
RECURSIVE ascending(_)
ascending(S) ==
  IF S = {} THEN <<>>
  ELSE LET least == CHOOSE x \in S : \A y \in S : x <= y
       IN <<least>> \o ascending(S \ {least})

\* recommendations.js:69-77: the comparator answers at random, so the sort may
\* leave the candidates in any order, and the first five are mapped to the
\* returned shape. Any five candidates may be the ones returned; a list stands
\* here for all its reorderings and is written in catalog order.
recommendationLists(candidates) ==
  LET n == Len(candidates)
      k == IF n < SLICE_END THEN n ELSE SLICE_END
      shape(p) == [title |-> p.name, contestId |-> p.contestId, index |-> p.index,
                   rating |-> p.rating]
  IN { [ i \in 1..k |-> shape(candidates[ascending(chosen)[i]]) ] :
         chosen \in { c \in SUBSET (1..n) : Cardinality(c) = k } }

noRecOut == recOut' = [sent |-> FALSE]

\* the rest of getRecommendations once getProblemSet has answered
\* (recommendations.js:53-77); catalog tells how the catalog was obtained
finishRecommend(userStats, allProblems, catalog) ==
  IF "solvedProblems" \notin DOMAIN userStats
  THEN recOut' = [sent |-> TRUE, kind |-> "throw", userStats |-> userStats,
                  catalog |-> catalog]                     \* TypeError at line 53
  ELSE \E list \in recommendationLists(candidatesOf(allProblems, userStats)) :
         recOut' = [sent |-> TRUE, kind |-> "list", list |-> list,
                    userStats |-> userStats, allProblems |-> allProblems,
                    catalog |-> catalog]

\* getRecommendations(userStats) up to its first await (recommendations.js:29-50,
\* 9-16); with a fresh cache getProblemSet answers without a call and the
\* function runs to its end
RecommendCall(userStats) ==
  /\ recStarted < MaxCalls
  /\ recStarted' = recStarted + 1
  /\ IF ~recognized(userStats)
     THEN /\ recOut' = [sent |-> TRUE, kind |-> "list", list |-> <<>>,
                        userStats |-> userStats, allProblems |-> <<>>,
                        catalog |-> "none"]
          /\ UNCHANGED <<recWaiting, fetchLog>>
     ELSE IF "ratingHistory" \notin DOMAIN userStats
     THEN /\ recOut' = [sent |-> TRUE, kind |-> "throw", userStats |-> userStats,
                        catalog |-> "none"]                \* TypeError at line 36
          /\ UNCHANGED <<recWaiting, fetchLog>>
     ELSE IF cacheIsFresh
     THEN /\ finishRecommend(userStats, problemSetCache.problems, "cached")
          /\ UNCHANGED <<recWaiting, fetchLog>>
     ELSE /\ recWaiting' = recWaiting (+) SetToBag({userStats})
          /\ fetchLog' = Append(fetchLog, [at |-> now,
                                           succeededBefore |-> problemSetCache.lastUpdated # 0])
          /\ noRecOut
  /\ UNCHANGED <<problemSetCache, lbVars, aggVars, mileVars, syncVars, updVars, logVars, cfVars, getVars, bandVars, dbVars>>

\* the catalog fetch of a waiting call settles (recommendations.js:17-26) and the
\* call runs to its end
CatalogSettle_StampAlways(userStats, ans) ==
  /\ BagIn(userStats, recWaiting)
  /\ recWaiting' = recWaiting (-) SetToBag({userStats})
  /\ problemSetCache' =
       IF ans.kind = "OK"
       THEN [problems |-> ans.problems, lastUpdated |-> now]
       ELSE [problemSetCache EXCEPT !.lastUpdated = now]
  /\ finishRecommend(userStats,
                     IF ans.kind \in {"neterr", "badjson"} THEN <<>>
                     ELSE problemSetCache'.problems,
                     IF ans.kind \in {"neterr", "badjson"} THEN "threw"
                     ELSE IF ans.kind = "OK" THEN "fetched"
                     ELSE IF Len(problemSetCache.problems) = 0 THEN "failedEmpty"
                     ELSE "failedStale")
  /\ UNCHANGED <<recStarted, fetchLog, lbVars, aggVars, mileVars, syncVars, updVars, logVars, cfVars, getVars, bandVars, dbVars>>
CatalogSettle(userStats, ans) ==
  /\ BagIn(userStats, recWaiting)
  /\ recWaiting' = recWaiting (-) SetToBag({userStats})
  /\ problemSetCache' =
       IF ans.kind = "OK"
       THEN [problems |-> ans.problems, lastUpdated |-> now]
       ELSE problemSetCache
  /\ finishRecommend(userStats,
                     IF ans.kind \in {"neterr", "badjson"} THEN <<>>     \* catch
                     ELSE problemSetCache'.problems,
                     IF ans.kind \in {"neterr", "badjson"} THEN "threw"
                     ELSE IF ans.kind = "OK" THEN "fetched"
                     ELSE IF Len(problemSetCache.problems) = 0 THEN "failedEmpty"
                     ELSE "failedStale")
  /\ UNCHANGED <<recStarted, fetchLog, lbVars, aggVars, mileVars, syncVars, updVars, logVars, cfVars, getVars, bandVars, dbVars>>

\* time passes while no catalog fetch is in flight: just under the hour, or the
\* hour exactly
RecDeltas == {HOUR_MS - 1, HOUR_MS}
RecTick(d) ==
  /\ ticks < MaxTicks
  /\ recWaiting = EmptyBag
  /\ now' = now + d
  /\ ticks' = ticks + 1
  /\ noRecOut
  /\ UNCHANGED <<firebaseActive, users, leaderboardCache, timerPending, execs, stamps,
                 fetchCalls, response, readStarted, aggVars, problemSetCache, recStarted,
                 recWaiting, fetchLog, mileVars, syncVars, updVars, logVars, cfVars, getVars, bandVars, dbVars>>

\* the recommendation engine on its own: the rest stays as constructed
InitRec == Init /\ ~firebaseActive

NextRec ==
  \/ \E userStats \in RecStats : RecommendCall(userStats)
  \/ \E userStats \in BagToSet(recWaiting), ans \in CatalogAnswers : CatalogSettle(userStats, ans)
  \/ \E d \in RecDeltas : RecTick(d)

SpecRec == InitRec /\ [][NextRec]_vars

\* --------------------------------------------------------------------------
\* Recommendations: properties
\* --------------------------------------------------------------------------
\* the catalog problems a user is to be offered: rated, inside the growth band
\* and not among the problems the user solved, which fetchCodeforcesStats
\* records under problemKey
UnsolvedInBand(allProblems, userStats) ==
  LET fits(p) == /\ p.rating # 0
                 /\ p.rating >= minRating(userStats)
                 /\ p.rating <= maxRating(userStats)
                 /\ problemKey(p) \notin userStats.solvedProblems
  IN SelectSeq(allProblems, fits)

\* C11: for a Codeforces statistics record and any catalog content, the list
\* getRecommendations returns holds exactly min(5, number of candidates)
\* different catalog problems, each rated, each rated inside
\* [max(800, r+100), min(3500, r+400)], and none of them solved by the user.
C11_RecommendationsFit ==
  (recOut.sent /\ recOut.kind = "list" /\ recognized(recOut.userStats)) =>
    LET list == recOut.list
        userStats == recOut.userStats
        wanted == UnsolvedInBand(recOut.allProblems, userStats)
        asProblem(r) == CatalogProblem(r.contestId, r.index, r.title, r.rating)
    IN /\ Len(list) = IF Len(wanted) < 5 THEN Len(wanted) ELSE 5
       /\ \A i, j \in DOMAIN list : i # j => list[i] # list[j]
       /\ \A i \in DOMAIN list :
            /\ \E n \in DOMAIN recOut.allProblems : recOut.allProblems[n] = asProblem(list[i])
            /\ list[i].rating # 0
            /\ list[i].rating >= minRating(userStats)
            /\ list[i].rating <= maxRating(userStats)
            /\ problemKey(asProblem(list[i])) \notin userStats.solvedProblems

\* C12: getRecommendations answers the empty list, and does not throw, when the
\* statistics are not recognizable (null, another platform, no ratingHistory or
\* no solvedProblems) and when the catalog is unavailable (the fetch throws, or
\* answers non-OK while nothing is cached).
Unrecognizable(userStats) ==
  \/ ~recognized(userStats)
  \/ "ratingHistory" \notin DOMAIN userStats
  \/ "solvedProblems" \notin DOMAIN userStats
C12_EmptyListNeverThrows ==
  (recOut.sent /\ (Unrecognizable(recOut.userStats) \/ recOut.catalog \in {"threw", "failedEmpty"}))
    => (recOut.kind = "list" /\ recOut.list = <<>>)

\* C13: once a catalog fetch has succeeded, no catalog fetch is issued less than
\* one hour after another one, whatever the interleaving of the calls.
C13_OneFetchPerHour ==
  \A i, j \in DOMAIN fetchLog :
    (i < j /\ fetchLog[j].succeededBefore) => fetchLog[j].at - fetchLog[i].at >= HOUR_MS

\* --------------------------------------------------------------------------
\* Milestones (recommendations.js:181-310)
\* --------------------------------------------------------------------------
CLUB_MILESTONES ==
  << [threshold |-> 800,   reward |-> "Chocolate Treat"],
     [threshold |-> 1200,  reward |-> "Cake Cutting"],
     [threshold |-> 2000,  reward |-> "Burger Treat"],
     [threshold |-> 4000,  reward |-> "T-Shirts Distribution"],
     [threshold |-> 7000,  reward |-> "Swag Bag"],
     [threshold |-> 10000, reward |-> "Trophy + Grand Party"] >>

\* Infinity: larger than any count
Infinity == 2147483647

INDIVIDUAL_MILESTONES_Gap ==
  << [level |-> "Beginner",        min |-> 0,    max |-> 49],
     [level |-> "Bronze Solver",   min |-> 51,   max |-> 149],
     [level |-> "Silver Solver",   min |-> 150,  max |-> 299],
     [level |-> "Gold Solver",     min |-> 300,  max |-> 599],
     [level |-> "Platinum Solver", min |-> 600,  max |-> 999],
     [level |-> "Diamond Solver",  min |-> 1000, max |-> 1499],
     [level |-> "Master Solver",   min |-> 1500, max |-> Infinity] >>
INDIVIDUAL_MILESTONES ==
  << [level |-> "Beginner",        min |-> 0,    max |-> 49],
     [level |-> "Bronze Solver",   min |-> 50,   max |-> 149],
     [level |-> "Silver Solver",   min |-> 150,  max |-> 299],
     [level |-> "Gold Solver",     min |-> 300,  max |-> 599],
     [level |-> "Platinum Solver", min |-> 600,  max |-> 999],
     [level |-> "Diamond Solver",  min |-> 1000, max |-> 1499],
     [level |-> "Master Solver",   min |-> 1500, max |-> Infinity] >>

\* Array.prototype.find over the positions that pass its test: the first of
\* them, 0 if none
find(passing) ==
  IF passing = {} THEN 0 ELSE CHOOSE i \in passing : \A j \in passing : i <= j

\* Math.min(100, x) of a fraction with a positive denominator
capPercent(x) == IF x.num > 100 * x.den THEN Frac(100, 1) ELSE x

\* Math.min(100, Math.max(0, x)) of a fraction with a positive denominator
clampPercent(x) ==
  IF x.num < 0 THEN Frac(0, 1)
  ELSE IF x.num > 100 * x.den THEN Frac(100, 1)
  ELSE x

\* calculateClubMilestones(totalProblemsSolved, existingMilestones) called at
\* time at (recommendations.js:209-223); a date is the time it was taken, 0 is
\* null
calculateClubMilestones_NewDate(totalProblemsSolved, existingMilestones, at) ==
  [ i \in DOMAIN CLUB_MILESTONES |->
      LET milestone == CLUB_MILESTONES[i]
          achieved == totalProblemsSolved >= milestone.threshold
      IN [ threshold |-> milestone.threshold,
           reward |-> milestone.reward,
           achieved |-> achieved,
           date |-> IF achieved THEN at ELSE 0,
           progress |-> capPercent(Frac(totalProblemsSolved * 100, milestone.threshold)) ] ]
calculateClubMilestones(totalProblemsSolved, existingMilestones, at) ==
  [ i \in DOMAIN CLUB_MILESTONES |->
      LET milestone == CLUB_MILESTONES[i]
          existing == find({ k \in DOMAIN existingMilestones :
                               existingMilestones[k].threshold = milestone.threshold })
          achieved == totalProblemsSolved >= milestone.threshold
      IN [ threshold |-> milestone.threshold,
           reward |-> milestone.reward,
           achieved |-> achieved,
           date |-> IF achieved
                    THEN IF existing # 0 /\ existingMilestones[existing].date # 0
                         THEN existingMilestones[existing].date
                         ELSE at
                    ELSE 0,
           progress |-> capPercent(Frac(totalProblemsSolved * 100, milestone.threshold)) ] ]

\* recommendations.js:249-272
calculateMemberMilestone_ToMax(problemsSolved) ==
  LET milestone == find({ k \in DOMAIN INDIVIDUAL_MILESTONES :
                            /\ problemsSolved >= INDIVIDUAL_MILESTONES[k].min
                            /\ problemsSolved <= INDIVIDUAL_MILESTONES[k].max })
      nextMilestone == find({ k \in DOMAIN INDIVIDUAL_MILESTONES :
                                INDIVIDUAL_MILESTONES[k].min > problemsSolved })
      tier == INDIVIDUAL_MILESTONES[milestone]
  IN IF milestone = 0 THEN NULL
     ELSE [ kind |-> "milestone",
            level |-> tier.level,
            problemsSolved |-> problemsSolved,
            problemsRequired |-> IF nextMilestone # 0
                                 THEN INDIVIDUAL_MILESTONES[nextMilestone].min
                                 ELSE tier.max,
            progress |-> clampPercent(
              IF nextMilestone # 0
              THEN Frac((problemsSolved - tier.min) * 100, tier.max - tier.min)
              ELSE Frac(100, 1)) ]
calculateMemberMilestone(problemsSolved) ==
  LET milestone == find({ k \in DOMAIN INDIVIDUAL_MILESTONES :
                            /\ problemsSolved >= INDIVIDUAL_MILESTONES[k].min
                            /\ problemsSolved <= INDIVIDUAL_MILESTONES[k].max })
      nextMilestone == find({ k \in DOMAIN INDIVIDUAL_MILESTONES :
                                INDIVIDUAL_MILESTONES[k].min > problemsSolved })
      tier == INDIVIDUAL_MILESTONES[milestone]
  IN IF milestone = 0 THEN NULL
     ELSE [ kind |-> "milestone",
            level |-> tier.level,
            problemsSolved |-> problemsSolved,
            problemsRequired |-> IF nextMilestone # 0
                                 THEN INDIVIDUAL_MILESTONES[nextMilestone].min
                                 ELSE tier.max,
            progress |-> clampPercent(
              IF nextMilestone # 0
              THEN Frac((problemsSolved - tier.min) * 100,
                        INDIVIDUAL_MILESTONES[nextMilestone].min - tier.min)
              ELSE Frac(100, 1)) ]

\* recommendations.js:280-291
getNewlyAchievedMilestones_All(oldMilestones, newMilestones) ==
  SelectSeq(newMilestones, LAMBDA newM : newM.achieved)
getNewlyAchievedMilestones(oldMilestones, newMilestones) ==
  LET isNew(newM) ==
        LET oldM == find({ k \in DOMAIN oldMilestones :
                             oldMilestones[k].threshold = newM.threshold })
        IN newM.achieved /\ (oldM = 0 \/ ~oldMilestones[oldM].achieved)
  IN SelectSeq(newMilestones, isNew)

\* the solved-counts the club milestones are computed for
ClubCounts == {0, 799, 800, 1200, 7000, 10001}

\* one call of calculateClubMilestones with the previous result as
\* existingMilestones, followed by getNewlyAchievedMilestones, a millisecond
\* after the call before it (activityLogger.js:264-273)
ClubRecalculate(c) ==
  /\ recalcs < MaxRecalcs
  /\ recalcs' = recalcs + 1
  /\ now' = now + 1
  /\ prevCount' = clubCount
  /\ clubCount' = c
  /\ clubPrev' = clubCurr
  /\ clubCurr' = calculateClubMilestones(c, clubCurr, now')
  /\ clubNewly' = getNewlyAchievedMilestones(clubCurr, clubCurr')
  /\ UNCHANGED <<firebaseActive, users, ticks, leaderboardCache, timerPending, execs, stamps,
                 fetchCalls, response, readStarted, aggVars, recVars, memberCount, memberOut, syncVars, updVars, logVars, cfVars, getVars, bandVars, dbVars>>

\* the result of a repeated call is handed to getNewlyAchievedMilestones twice
ClubCompareSame ==
  /\ recalcs > 0
  /\ recalcs < MaxRecalcs
  /\ recalcs' = recalcs + 1
  /\ prevCount' = clubCount
  /\ clubPrev' = clubCurr
  /\ clubNewly' = getNewlyAchievedMilestones(clubCurr, clubCurr)
  /\ UNCHANGED <<lbVars, aggVars, recVars, clubCount, clubCurr, memberCount, memberOut, syncVars, updVars, logVars, cfVars, getVars, bandVars, dbVars>>

InitClub == Init /\ ~firebaseActive

NextClub ==
  \/ \E c \in ClubCounts : ClubRecalculate(c)
  \/ ClubCompareSame

SpecClub == InitClub /\ [][NextClub]_vars

\* calculateMemberMilestone(problemsSolved) is called
MemberMilestoneCall ==
  /\ ~memberOut.called
  /\ memberOut' = [called |-> TRUE, result |-> calculateMemberMilestone(memberCount)]
  /\ UNCHANGED <<lbVars, aggVars, recVars, clubCount, prevCount, clubPrev, clubCurr, clubNewly,
                 recalcs, memberCount, syncVars, updVars, logVars, cfVars, getVars, bandVars, dbVars>>

\* the member solves one more problem and the milestone is computed again
MemberSolves ==
  /\ memberOut.called
  /\ memberCount < MaxCount
  /\ memberCount' = memberCount + 1
  /\ memberOut' = [called |-> TRUE, result |-> calculateMemberMilestone(memberCount')]
  /\ UNCHANGED <<lbVars, aggVars, recVars, clubCount, prevCount, clubPrev, clubCurr, clubNewly,
                 recalcs, syncVars, updVars, logVars, cfVars, getVars, bandVars, dbVars>>

InitMember ==
  /\ InitLeaderboard /\ InitAggIdle /\ InitRecIdle /\ InitClubIdle /\ InitSyncIdle
  /\ InitIdle3
  /\ ~firebaseActive
  /\ memberCount \in 0..MaxCount
  /\ memberOut = [called |-> FALSE]

NextMember ==
  \/ MemberMilestoneCall
  \/ MemberSolves

SpecMember == InitMember /\ [][NextMember]_vars

\* --------------------------------------------------------------------------
\* Milestones: properties
\* --------------------------------------------------------------------------
\* C14: calculateClubMilestones marks exactly the tiers with threshold <= c as
\* achieved, and a call with the previous result and the same or a larger c
\* leaves the date of every tier that was achieved as it was.
C14_State ==
  recalcs > 0 =>
    /\ Len(clubCurr) = Len(CLUB_MILESTONES)
    /\ \A i \in DOMAIN clubCurr :
         /\ clubCurr[i].threshold = CLUB_MILESTONES[i].threshold
         /\ clubCurr[i].achieved <=> clubCurr[i].threshold <= clubCount
C14_Step ==
  (clubCurr # <<>> /\ clubCount' >= clubCount) =>
    \A i \in DOMAIN clubCurr :
      clubCurr[i].achieved => (clubCurr'[i].date = clubCurr[i].date /\ clubCurr[i].date # 0)
C14_AchievedByThresholdDatesKept == []C14_State /\ [][C14_Step]_vars
C14_Witness ==
  /\ clubPrev # <<>>
  /\ clubCount > prevCount
  /\ clubPrev[1].achieved /\ clubCurr[1].date = clubPrev[1].date /\ clubCurr[1].date < now
  /\ ~clubPrev[2].achieved /\ clubCurr[2].achieved /\ clubCurr[2].date = now
  /\ ~clubCurr[6].achieved

\* C18: getNewlyAchievedMilestones(prev, curr) is empty when prev equals curr;
\* it holds exactly the tiers achieved in curr that prev does not hold as
\* achieved; and when curr comes from a strictly larger count than prev, these
\* are the tiers whose threshold lies in (prevCount, currCount].
NewTiers ==
  { i \in DOMAIN clubCurr :
      /\ clubCurr[i].achieved
      /\ \A j \in DOMAIN clubPrev :
           clubPrev[j].threshold = clubCurr[i].threshold => ~clubPrev[j].achieved }
C18_NewlyAchievedExact ==
  recalcs > 0 =>
    /\ (clubPrev = clubCurr) => (clubNewly = <<>>)
    /\ { clubNewly[n] : n \in DOMAIN clubNewly } = { clubCurr[i] : i \in NewTiers }
    /\ Len(clubNewly) = Cardinality(NewTiers)
    /\ (clubPrev # <<>> /\ clubCount > prevCount) =>
         { clubNewly[n].threshold : n \in DOMAIN clubNewly }
           = { CLUB_MILESTONES[i].threshold : i \in
                 { k \in DOMAIN CLUB_MILESTONES :
                     /\ CLUB_MILESTONES[k].threshold > prevCount
                     /\ CLUB_MILESTONES[k].threshold <= clubCount } }
C18_Witness ==
  /\ clubPrev # <<>>
  /\ prevCount = 800
  /\ clubCount = 7000
  /\ Len(clubNewly) = 4
  /\ clubNewly[1].threshold = 1200

\* C16: a non-negative integer count lies in the range of exactly one tier of
\* INDIVIDUAL_MILESTONES, and calculateMemberMilestone does not return null.
MatchingTiers(c) ==
  { i \in DOMAIN INDIVIDUAL_MILESTONES :
      INDIVIDUAL_MILESTONES[i].min <= c /\ c <= INDIVIDUAL_MILESTONES[i].max }
C16_ExactlyOneTier ==
  /\ Cardinality(MatchingTiers(memberCount)) = 1
  /\ memberOut.called => memberOut.result # NULL
C16_Witness ==
  /\ memberOut.called
  /\ memberCount = 50
  /\ memberOut.result # NULL
  /\ memberOut.result.level = "Bronze Solver"

\* C17: within a tier the progress is (c - tier.min) / (nextTier.min - tier.min)
\* * 100, at least 0 and below 100, 0 at the tier's min, and does not decrease
\* when c grows; in the top tier it is 100.
C17_State ==
  (memberOut.called /\ memberOut.result # NULL /\ MatchingTiers(memberCount) # {}) =>
    LET t == CHOOSE i \in MatchingTiers(memberCount) : TRUE
        tier == INDIVIDUAL_MILESTONES[t]
        progress == memberOut.result.progress
    IN IF t < Len(INDIVIDUAL_MILESTONES)
       THEN /\ FracEq(progress, Frac((memberCount - tier.min) * 100,
                                     INDIVIDUAL_MILESTONES[t + 1].min - tier.min))
            /\ progress.den > 0
            /\ progress.num >= 0
            /\ progress.num < 100 * progress.den
            /\ (memberCount = tier.min) => (progress.num = 0)
       ELSE FracEq(progress, Frac(100, 1))
C17_Step ==
  ( /\ memberOut.called /\ memberOut'.called
    /\ memberOut.result # NULL /\ memberOut'.result # NULL
    /\ memberOut'.result.level = memberOut.result.level
    /\ memberCount' >= memberCount ) =>
      memberOut.result.progress.num * memberOut'.result.progress.den
        <= memberOut'.result.progress.num * memberOut.result.progress.den
C17_ProgressLinearInTier == []C17_State /\ [][C17_Step]_vars
C17_Witness ==
  /\ memberOut.called
  /\ memberCount = 149
  /\ memberOut.result # NULL
  /\ memberOut.result.level = "Bronze Solver"
  /\ FracEq(memberOut.result.progress, Frac(99, 1))

\* --------------------------------------------------------------------------
\* Club sync (activityLogger.js:236-314, 411-428, 476-488; aggregator.js)
\* --------------------------------------------------------------------------
\* a JavaScript value of the problemsSolved field
Undefined == [t |-> "undefined"]
Num(n) == [t |-> "number", v |-> n]
Str(x) == [t |-> "string", v |-> x]

\* one member as fetchAllMembers lists it, { id, ...membersObj[id] }
\* (activityLogger.js:420-423): the id is the key unless the record carries its
\* own; "" stands for a falsy id or name
Member(id, name, problemsSolved) ==
  [id |-> id, name |-> name, problemsSolved |-> problemsSolved]

\* the contents of 'members' the syncs are run against
MemberLists ==
  { <<>>,
    << Member("1", "Asha", Num(800)) >>,
    << Member("1", "Asha", Num(400)), Member("2", "Ben", Undefined) >>,
    << Member("1", "Asha", Num(800)), Member("2", "Ben", Num(400)) >>,
    << Member("1", "Asha", Num(800)), Member("2", "", Num(400)),
       Member("3", "Chen", Num(-5)),  Member("4", "Dipa", Str("900")),
       Member("", "Eli", Num(400)),   Member("6", "Ben", Num(400)) >> }

\* getSampleMembers() (activityLogger.js:494-557)
SampleMembers ==
  << Member("1", "Aryan Chauhan", Num(450)), Member("2", "Ravi Sharma", Num(380)),
     Member("3", "Sneha Patel", Num(520)),   Member("4", "Rahul Verma", Num(290)),
     Member("5", "Priya Singh", Num(198)),   Member("6", "Amit Kumar", Num(223)) >>

\* aggregator.js:86-104
validateMemberData_AnyCount(member) ==
  ~(member.id = "" \/ member.name = "")
validateMemberData(member) ==
  /\ ~(member.id = "" \/ member.name = "")
  /\ member.problemsSolved # Undefined =>
       ~(member.problemsSolved.t # "number" \/ member.problemsSolved.v < 0)

\* the forEach of aggregateClubStats (aggregator.js:30-40)
RECURSIVE totalProblems(_)
totalProblems(list) ==
  IF list = <<>> THEN 0
  ELSE LET member == Head(list)
       IN (IF member.problemsSolved.t = "number" /\ member.problemsSolved.v >= 0
           THEN member.problemsSolved.v ELSE 0) + totalProblems(Tail(list))

\* aggregator.js:11-79, without the platform averages
aggregateClubStats(list) ==
  IF Len(list) = 0
  THEN [totalMembers |-> 0, totalProblemsSolved |-> 0]
  ELSE [totalMembers |-> Len(list), totalProblemsSolved |-> totalProblems(list)]

\* activityLogger.js:27-44
logActivity_DropNewest(log, activity) ==
  LET longer == <<activity>> \o log
  IN IF Len(longer) > MAX_ACTIVITIES THEN SubSeq(longer, 2, Len(longer)) ELSE longer
logActivity(log, activity) ==
  LET longer == <<activity>> \o log
  IN IF Len(longer) > MAX_ACTIVITIES THEN SubSeq(longer, 1, MAX_ACTIVITIES) ELSE longer

\* activityLogger.js:50-61, logged at time at
clubMilestoneActivity(milestone, at) ==
  [ type |-> "club_milestone",
    timestamp |-> at,
    milestone |-> [threshold |-> milestone.threshold, reward |-> milestone.reward] ]

\* activityLogger.js:144-151: activity[key] of a key the activity does not have
\* is undefined, which equals no criterion
activityExists(log, type, criteria) ==
  \E i \in DOMAIN log :
    /\ log[i].type = type
    /\ \A key \in DOMAIN criteria :
         key \in DOMAIN log[i] /\ log[i][key] = criteria[key]

\* activityLogger.js:276-283
RECURSIVE logNewlyAchieved(_, _, _)
logNewlyAchieved(log, newlyAchieved, at) ==
  IF newlyAchieved = <<>> THEN log
  ELSE LET milestone == Head(newlyAchieved)
           criteria == [key \in {"milestone.threshold"} |-> milestone.threshold]
       IN logNewlyAchieved(
            IF ~activityExists(log, "club_milestone", criteria)
            THEN logActivity(log, clubMilestoneActivity(milestone, at))
            ELSE log,
            Tail(newlyAchieved), at)

noSyncOut == syncOut' = [step |-> "none"]

\* performFullSync(db) up to await fetchAllMembers(db) (activityLogger.js:245-250)
SyncCall ==
  /\ syncStarted < MaxSyncs
  /\ syncStarted' = syncStarted + 1
  /\ syncFetching' = syncFetching + 1
  /\ noSyncOut
  /\ UNCHANGED <<members, membersWrites, cachedClubData, lastSyncTime, activities,
                 savedClubData, syncSaving, lbVars, aggVars, recVars, mileVars, updVars, logVars, cfVars, getVars, bandVars, dbVars>>

\* fetchAllMembers answers, with the members read or, when the read failed,
\* with the sample members (activityLogger.js:417-427); the sync runs on to
\* await saveClubData (activityLogger.js:250-298), a millisecond after the step
\* before
fullSync(readOk) ==
  /\ now' = now + 1
  /\ LET fetched == IF readOk THEN members ELSE SampleMembers
         validMembers == SelectSeq(fetched, validateMemberData)
         clubStats == aggregateClubStats(validMembers)
         previousMilestones ==
           IF cachedClubData # NULL /\ cachedClubData.milestones # <<>>
           THEN cachedClubData.milestones ELSE <<>>
         newMilestones ==
           calculateClubMilestones(clubStats.totalProblemsSolved, previousMilestones, now')
         newlyAchieved == getNewlyAchievedMilestones(previousMilestones, newMilestones)
         clubData == [ kind |-> "clubData",
                       totalMembers |-> clubStats.totalMembers,
                       totalProblemsSolved |-> clubStats.totalProblemsSolved,
                       milestones |-> newMilestones,
                       contestStreak |-> 30,
                       lastSyncTime |-> now' ]
     IN /\ activities' = logNewlyAchieved(activities, newlyAchieved, now')
        /\ cachedClubData' = clubData
        /\ lastSyncTime' = now'
        /\ syncOut' = [step |-> "computed", readOk |-> readOk, fetched |-> fetched,
                       clubData |-> clubData]

MembersFetched(readOk) ==
  /\ syncFetching > 0
  /\ syncFetching' = syncFetching - 1
  /\ fullSync(readOk)
  /\ syncSaving' = syncSaving (+) SetToBag({syncOut'.clubData})
  /\ UNCHANGED <<firebaseActive, users, ticks, leaderboardCache, timerPending, execs, stamps,
                 fetchCalls, response, readStarted, aggVars, recVars, mileVars,
                 members, membersWrites, savedClubData, syncStarted, updVars, logVars, cfVars, getVars, bandVars, dbVars>>

\* the catch block of performFullSync (activityLogger.js:303-313)
syncCatch_Rethrow == THROWN
syncCatch ==
  IF cachedClubData # NULL THEN [kind |-> "return", value |-> cachedClubData] ELSE THROWN

\* saveClubData settles (activityLogger.js:298-312, 476-488): the sync returns
\* its clubData, or, when the write failed, the cached data
fullSyncEnd(clubData, writeOk) ==
  /\ savedClubData' = IF writeOk THEN clubData ELSE savedClubData
  /\ syncOut' = [step |-> "ended", writeOk |-> writeOk, clubData |-> clubData,
                 outcome |-> IF writeOk THEN [kind |-> "return", value |-> clubData]
                             ELSE syncCatch]

ClubDataSaved(clubData, writeOk) ==
  /\ BagIn(clubData, syncSaving)
  /\ syncSaving' = syncSaving (-) SetToBag({clubData})
  /\ fullSyncEnd(clubData, writeOk)
  /\ UNCHANGED <<members, membersWrites, cachedClubData, lastSyncTime, activities,
                 syncStarted, syncFetching, lbVars, aggVars, recVars, mileVars, updVars,
                 logVars, cfVars, getVars, bandVars, dbVars>>

\* the members in the database are written: a member is saved with another
\* count, added or removed (activityLogger.js:457-469, or another client)
MembersWritten(list) ==
  /\ membersWrites < MaxWrites
  /\ membersWrites' = membersWrites + 1
  /\ list # members
  /\ members' = list
  /\ noSyncOut
  /\ UNCHANGED <<cachedClubData, lastSyncTime, activities, savedClubData, syncStarted,
                 syncFetching, syncSaving, lbVars, aggVars, recVars, mileVars, updVars, logVars, cfVars, getVars, bandVars, dbVars>>

\* the sync service on its own, over any first contents of the database
InitSync ==
  /\ InitLeaderboard /\ InitAggIdle /\ InitRecIdle /\ InitClubIdle /\ InitMemberIdle
  /\ InitIdle3
  /\ ~firebaseActive
  /\ members \in MemberLists
  /\ membersWrites = 0
  /\ cachedClubData = NULL
  /\ lastSyncTime = 0
  /\ activities = <<>>
  /\ savedClubData = NULL
  /\ syncStarted = 0
  /\ syncFetching = 0
  /\ syncSaving = EmptyBag
  /\ syncOut = [step |-> "none"]

NextSync ==
  \/ SyncCall
  \/ \E readOk \in BOOLEAN : MembersFetched(readOk)
  \/ \E clubData \in BagToSet(syncSaving), writeOk \in BOOLEAN : ClubDataSaved(clubData, writeOk)
  \/ \E list \in MemberLists : MembersWritten(list)

SpecSync == InitSync /\ [][NextSync]_vars

\* --------------------------------------------------------------------------
\* Club sync: properties
\* --------------------------------------------------------------------------
\* C15: from one cached state to the next, a club milestone tier that is
\* achieved stays achieved and keeps its date, whatever the solved-count does.
C15_Step ==
  (cachedClubData # NULL /\ cachedClubData' # NULL) =>
    \A i \in DOMAIN cachedClubData.milestones :
      cachedClubData.milestones[i].achieved =>
        /\ cachedClubData'.milestones[i].achieved
        /\ cachedClubData'.milestones[i].date = cachedClubData.milestones[i].date
C15_OnceAchievedStaysAchieved == [][C15_Step]_vars

\* C19: the activity log never holds two club_milestone entries of the same
\* threshold.
C19_OneEntryPerThreshold ==
  \A i, j \in DOMAIN activities :
    ( /\ i # j
      /\ activities[i].type = "club_milestone"
      /\ activities[j].type = "club_milestone" ) =>
        activities[i].milestone.threshold # activities[j].milestone.threshold

\* C20: a sync that has read the members goes through whatever records it
\* read: the snapshot it caches counts the members that have an id, a name and
\* no negative or non-numeric solved-count, and totals the solved-counts of
\* those members only.
IsValidMember(member) ==
  /\ member.id # ""
  /\ member.name # ""
  /\ \/ member.problemsSolved.t = "undefined"
     \/ (member.problemsSolved.t = "number" /\ member.problemsSolved.v >= 0)
RECURSIVE SolvedOver(_, _)
SolvedOver(list, positions) ==
  IF positions = {} THEN 0
  ELSE LET i == CHOOSE x \in positions : TRUE
       IN (IF list[i].problemsSolved.t = "number" THEN list[i].problemsSolved.v ELSE 0)
          + SolvedOver(list, positions \ {i})
C20_InvalidMembersSkipped ==
  syncOut.step = "computed" =>
    LET valid == { i \in DOMAIN syncOut.fetched : IsValidMember(syncOut.fetched[i]) }
    IN /\ syncOut.clubData.totalMembers = Cardinality(valid)
       /\ syncOut.clubData.totalProblemsSolved = SolvedOver(syncOut.fetched, valid)
       /\ cachedClubData = syncOut.clubData
C20_Witness ==
  /\ syncOut.step = "computed"
  /\ Len(syncOut.fetched) = 6
  /\ \E i \in DOMAIN syncOut.fetched : syncOut.fetched[i].problemsSolved = Num(-5)
  /\ syncOut.clubData.totalMembers = 2
  /\ syncOut.clubData.totalProblemsSolved = 1200

\* C21 as stated: when the write of the club data fails, performFullSync
\* returns the snapshot it has just computed and the cache holds that snapshot.
C21_FailedWriteReturnsOwnSnapshot ==
  (syncOut.step = "ended" /\ ~syncOut.writeOk) =>
    /\ syncOut.outcome = [kind |-> "return", value |-> syncOut.clubData]
    /\ cachedClubData = syncOut.clubData

\* C21: when the write of the club data fails, performFullSync does not fail:
\* it returns the snapshot the cache holds, which is the one it computed or
\* the one a sync that ran meanwhile computed after it.
C21_FailedWriteReturnsCachedSnapshot ==
  (syncOut.step = "ended" /\ ~syncOut.writeOk) =>
    /\ syncOut.outcome.kind = "return"
    /\ syncOut.outcome.value = cachedClubData
    /\ cachedClubData # NULL
    /\ cachedClubData.lastSyncTime >= syncOut.clubData.lastSyncTime
C21_Witness ==
  /\ syncOut.step = "ended"
  /\ ~syncOut.writeOk
  /\ syncOut.outcome.kind = "return"
  /\ syncOut.outcome.value = syncOut.clubData
  /\ syncOut.clubData.totalProblemsSolved = 800
  /\ savedClubData = NULL

\* C22: a sync whose read of the members fails leaves the cached snapshot, with
\* its milestone state, and the activity log as they were.
C22_Step ==
  (syncOut'.step = "computed" /\ ~syncOut'.readOk) =>
    (cachedClubData' = cachedClubData /\ activities' = activities)
C22_FailedReadLeavesCache == [][C22_Step]_vars

(***************************************************************************)
(* updateMemberData (activityLogger.js:323-364)                            *)
(***************************************************************************)

\* recommendations.js:299-310
getNewlyAchievedMemberMilestone_AnyChange(oldProblems, newProblems) ==
  LET oldMilestone == calculateMemberMilestone(oldProblems)
      newMilestone == calculateMemberMilestone(newProblems)
  IN IF oldMilestone = NULL \/ newMilestone = NULL THEN NULL ELSE newMilestone
getNewlyAchievedMemberMilestone(oldProblems, newProblems) ==
  LET oldMilestone == calculateMemberMilestone(oldProblems)
      newMilestone == calculateMemberMilestone(newProblems)
  IN IF oldMilestone = NULL \/ newMilestone = NULL THEN NULL
     ELSE IF oldMilestone.level # newMilestone.level THEN newMilestone
     ELSE NULL

\* activityLogger.js:80-87, logged at time at
memberMilestoneActivity(level, at) ==
  [type |-> "member_milestone", timestamp |-> at, level |-> level]

\* the members updated and the updates given: a member that always has a
\* numeric or no count, one that may be absent, and one that never exists
UpdateIds == {"1", "2", "9"}
Updates == {Undefined, Num(0), Num(49), Num(50), Num(400), Num(800)}

\* currentMember.problemsSolved || 0 of a numeric or missing count
orZero(v) == IF v.t = "number" THEN v.v ELSE 0

\* where members/<memberId> is in the list of members, 0 if nowhere
memberAt(memberId) == find({ k \in DOMAIN members : members[k].id = memberId })

\* updateMemberData(db, memberId, updates) up to await getMember
UpdateCall(memberId, updates) ==
  /\ upd.pc \in {"idle", "ended"}
  /\ updStarted < MaxUpdates
  /\ updStarted' = updStarted + 1
  /\ upd' = [ pc |-> "getMember", memberId |-> memberId, updates |-> updates,
              currentMember |-> NULL, oldProblems |-> 0, newProblems |-> 0,
              updatedMember |-> NULL, clubData |-> NULL, steps |-> <<>>,
              outcome |-> NULL ]
  /\ noSyncOut
  /\ UNCHANGED <<members, membersWrites, cachedClubData, lastSyncTime, activities,
                 savedClubData, syncStarted, syncFetching, syncSaving, lbVars, aggVars,
                 recVars, mileVars, logVars, cfVars, getVars, bandVars, dbVars>>

\* getMember answers (activityLogger.js:436-449, null when the read failed);
\* the update runs on to await saveMember (activityLogger.js:326-343)
MemberGot(readOk) ==
  /\ upd.pc = "getMember"
  /\ LET at == memberAt(upd.memberId)
         currentMember == IF readOk /\ at # 0 THEN members[at] ELSE NULL
         oldProblems == orZero(currentMember.problemsSolved)
         newProblems == IF upd.updates # Undefined THEN upd.updates.v ELSE oldProblems
     IN upd' = IF currentMember = NULL
               THEN [upd EXCEPT !.pc = "ended", !.outcome = THROWN]
               ELSE [upd EXCEPT !.pc = "saveMember",
                                !.currentMember = currentMember,
                                !.oldProblems = oldProblems,
                                !.newProblems = newProblems,
                                !.updatedMember =
                                  IF upd.updates # Undefined
                                  THEN [currentMember EXCEPT !.problemsSolved = upd.updates]
                                  ELSE currentMember]
  /\ noSyncOut
  /\ UNCHANGED <<updStarted, members, membersWrites, cachedClubData, lastSyncTime,
                 activities, savedClubData, syncStarted, syncFetching, syncSaving, lbVars,
                 aggVars, recVars, mileVars, logVars, cfVars, getVars, bandVars, dbVars>>

MemberSaved_LogFirst(writeOk) ==
  /\ upd.pc = "saveMember"
  /\ LET at == memberAt(upd.memberId)
         newMilestone ==
           IF upd.newProblems # upd.oldProblems
           THEN getNewlyAchievedMemberMilestone(upd.oldProblems, upd.newProblems)
           ELSE NULL
     IN /\ activities' =
             IF newMilestone # NULL
             THEN logActivity(activities, memberMilestoneActivity(newMilestone.level, now))
             ELSE activities
        /\ IF writeOk
           THEN /\ members' = IF at # 0 THEN [members EXCEPT ![at] = upd.updatedMember]
                              ELSE Append(members, upd.updatedMember)
                /\ upd' = [upd EXCEPT !.pc = "fetchAllMembers",
                                      !.steps = <<"saveMember">>
                                        \o (IF newMilestone # NULL
                                            THEN <<"logMemberMilestone">> ELSE <<>>)
                                        \o <<"performFullSync">>]
           ELSE /\ upd' = [upd EXCEPT !.pc = "ended", !.outcome = THROWN]
                /\ UNCHANGED members
  /\ noSyncOut
  /\ UNCHANGED <<updStarted, membersWrites, cachedClubData, lastSyncTime, savedClubData,
                 syncStarted, syncFetching, syncSaving, lbVars, aggVars, recVars, mileVars,
                 logVars, cfVars, getVars, bandVars, dbVars>>

\* saveMember settles (activityLogger.js:457-469); after a write that
\* succeeded the update logs the member's new milestone, if any, and runs on
\* into performFullSync up to await fetchAllMembers (activityLogger.js:343-355,
\* 245-250); after one that failed it rethrows (activityLogger.js:359-362)
MemberSaved(writeOk) ==
  /\ upd.pc = "saveMember"
  /\ IF writeOk
     THEN LET at == memberAt(upd.memberId)
              newMilestone ==
                IF upd.newProblems # upd.oldProblems
                THEN getNewlyAchievedMemberMilestone(upd.oldProblems, upd.newProblems)
                ELSE NULL
          IN /\ members' = IF at # 0 THEN [members EXCEPT ![at] = upd.updatedMember]
                           ELSE Append(members, upd.updatedMember)
             /\ activities' =
                  IF newMilestone # NULL
                  THEN logActivity(activities, memberMilestoneActivity(newMilestone.level, now))
                  ELSE activities
             /\ upd' = [upd EXCEPT !.pc = "fetchAllMembers",
                                   !.steps = <<"saveMember">>
                                     \o (IF newMilestone # NULL
                                         THEN <<"logMemberMilestone">> ELSE <<>>)
                                     \o <<"performFullSync">>]
     ELSE /\ upd' = [upd EXCEPT !.pc = "ended", !.outcome = THROWN]
          /\ UNCHANGED <<members, activities>>
  /\ noSyncOut
  /\ UNCHANGED <<updStarted, membersWrites, cachedClubData, lastSyncTime, savedClubData,
                 syncStarted, syncFetching, syncSaving, lbVars, aggVars, recVars, mileVars,
                 logVars, cfVars, getVars, bandVars, dbVars>>

\* fetchAllMembers answers the sync of the update
UpdateMembersFetched(readOk) ==
  /\ upd.pc = "fetchAllMembers"
  /\ fullSync(readOk)
  /\ upd' = [upd EXCEPT !.pc = "saveClubData", !.clubData = syncOut'.clubData]
  /\ UNCHANGED <<firebaseActive, users, ticks, leaderboardCache, timerPending, execs, stamps,
                 fetchCalls, response, readStarted, aggVars, recVars, mileVars,
                 members, membersWrites, savedClubData, syncStarted, syncFetching,
                 syncSaving, updStarted, logVars, cfVars, getVars, bandVars, dbVars>>

\* saveClubData settles for the sync of the update, the sync ends and the
\* update returns the updated member, or rethrows what the sync threw
\* (activityLogger.js:355-362)
UpdateClubDataSaved(writeOk) ==
  /\ upd.pc = "saveClubData"
  /\ fullSyncEnd(upd.clubData, writeOk)
  /\ upd' = IF syncOut'.outcome = THROWN
            THEN [upd EXCEPT !.pc = "ended", !.outcome = THROWN]
            ELSE [upd EXCEPT !.pc = "ended",
                             !.steps = upd.steps \o <<"return">>,
                             !.outcome = [kind |-> "return", value |-> upd.updatedMember]]
  /\ UNCHANGED <<updStarted, members, membersWrites, cachedClubData, lastSyncTime,
                 activities, syncStarted, syncFetching, syncSaving, lbVars, aggVars,
                 recVars, mileVars, logVars, cfVars, getVars, bandVars, dbVars>>

\* updates of members, one after another, over any first contents of the database
InitUpdate == InitSync

NextUpdate ==
  \/ \E memberId \in UpdateIds, updates \in Updates : UpdateCall(memberId, updates)
  \/ \E readOk \in BOOLEAN : MemberGot(readOk)
  \/ \E writeOk \in BOOLEAN : MemberSaved(writeOk)
  \/ \E readOk \in BOOLEAN : UpdateMembersFetched(readOk)
  \/ \E writeOk \in BOOLEAN : UpdateClubDataSaved(writeOk)

SpecUpdate == InitUpdate /\ [][NextUpdate]_vars

\* the member-milestone entries of an activity log
memberLogs(log) == Cardinality({ i \in DOMAIN log : log[i].type = "member_milestone" })

\* the label of the tier a count lies in
TierLabel(c) ==
  INDIVIDUAL_MILESTONES[CHOOSE i \in DOMAIN INDIVIDUAL_MILESTONES :
                          /\ INDIVIDUAL_MILESTONES[i].min <= c
                          /\ c <= INDIVIDUAL_MILESTONES[i].max].level

\* the update in progress changes the count to one of another tier
Crossing ==
  /\ upd.newProblems # upd.oldProblems
  /\ TierLabel(upd.oldProblems) # TierLabel(upd.newProblems)

\* C23: updateMemberData saves the updated member, then logs exactly one
\* member-milestone activity if and only if the count changed and the tier
\* label of the old count differs from that of the new count, then runs one
\* full sync, and only then returns the updated member.
C23_Step ==
  LET saved == upd.pc = "saveMember" /\ upd'.pc = "fetchAllMembers"
      returned == upd.pc # "ended" /\ upd'.pc = "ended" /\ upd'.outcome.kind = "return"
  IN /\ saved =>
          /\ \E k \in DOMAIN members' : members'[k] = upd.updatedMember
          /\ memberLogs(activities') = memberLogs(activities) + (IF Crossing THEN 1 ELSE 0)
          /\ Crossing => /\ Head(activities').type = "member_milestone"
                         /\ Head(activities').level = TierLabel(upd.newProblems)
     /\ ~saved => memberLogs(activities') = memberLogs(activities)
     /\ syncOut'.step = "computed" => upd.pc = "fetchAllMembers"
     /\ returned =>
          /\ upd.pc = "saveClubData"
          /\ syncOut'.step = "ended"
          /\ cachedClubData # NULL
          /\ upd'.outcome.value = upd.updatedMember
          /\ upd'.steps = <<"saveMember">>
                            \o (IF Crossing THEN <<"logMemberMilestone">> ELSE <<>>)
                            \o <<"performFullSync", "return">>
C23_SaveLogSyncReturn == [][C23_Step]_vars
C23_Witness ==
  /\ upd.pc = "ended"
  /\ upd.outcome = [kind |-> "return", value |-> Member("1", "Asha", Num(50))]
  /\ upd.oldProblems = 400
  /\ upd.steps = <<"saveMember", "logMemberMilestone", "performFullSync", "return">>
  /\ memberLogs(activities) = 1
  /\ cachedClubData.totalProblemsSolved = 50

(***************************************************************************)
(* The activity log on its own (activityLogger.js:13-135)                  *)
(***************************************************************************)

\* activityLogger.js:66-74, the n-th activity logged, at time at; the id, a
\* time and a random string in the code, is the number of the call
memberJoinActivity(n, member, at) ==
  [ id |-> n, type |-> "member_join", timestamp |-> at,
    memberId |-> member.id, memberName |-> member.name ]

\* activityLogger.js:120-135, at time at; a count with its unit stands for
\* the text "<n> <unit>(s) ago"
getTimeAgo(timestamp, at) ==
  LET diffMs == at - timestamp
      diffSec == diffMs \div 1000
      diffMin == diffSec \div 60
      diffHour == diffMin \div 60
      diffDay == diffHour \div 24
      diffWeek == diffDay \div 7
  IN IF diffSec < 60 THEN [text |-> "just now"]
     ELSE IF diffMin < 60 THEN [n |-> diffMin, unit |-> "minute"]
     ELSE IF diffHour < 24 THEN [n |-> diffHour, unit |-> "hour"]
     ELSE IF diffDay < 7 THEN [n |-> diffDay, unit |-> "day"]
     ELSE IF diffWeek < 4 THEN [n |-> diffWeek, unit |-> "week"]
     ELSE [date |-> timestamp]

\* Array.prototype.slice(0, end)
sliceTo(list, end) ==
  LET stop == IF end < 0 THEN Len(list) + end
              ELSE IF end > Len(list) THEN Len(list) ELSE end
  IN IF stop <= 0 THEN <<>> ELSE SubSeq(list, 1, stop)

\* activityLogger.js:108-113, called at time at
getRecentActivities(limit, at) ==
  LET shown == sliceTo(activities, limit)
  IN [ i \in DOMAIN shown |->
         [ id |-> shown[i].id, type |-> shown[i].type, timestamp |-> shown[i].timestamp,
           memberId |-> shown[i].memberId, memberName |-> shown[i].memberName,
           timeAgo |-> getTimeAgo(shown[i].timestamp, at) ] ]

\* the limits getRecentActivities is called with
Limits == {0, 1, DISPLAY_LIMIT, MAX_ACTIVITIES, MAX_ACTIVITIES + 10}

\* logMemberJoin(member), a millisecond after the step before
LogMemberJoin ==
  /\ logged < MaxLogs
  /\ logged' = logged + 1
  /\ now' = now + 1
  /\ activities' = logActivity(activities,
                     memberJoinActivity(logged', SampleMembers[(logged % 6) + 1], now'))
  /\ recent' = [called |-> FALSE]
  /\ UNCHANGED <<firebaseActive, users, ticks, leaderboardCache, timerPending, execs, stamps,
                 fetchCalls, response, readStarted, aggVars, recVars, mileVars,
                 members, membersWrites, cachedClubData, lastSyncTime, savedClubData,
                 syncStarted, syncFetching, syncSaving, syncOut, updVars, cfVars, getVars, bandVars, dbVars>>

\* getRecentActivities(limit)
GetRecentActivities(limit) ==
  /\ recent' = [called |-> TRUE, given |-> TRUE, limit |-> limit,
                value |-> getRecentActivities(limit, now)]
  /\ UNCHANGED <<logged, lbVars, aggVars, recVars, mileVars, syncVars, updVars, cfVars, getVars, bandVars, dbVars>>

\* getRecentActivities()
GetRecentActivitiesDefault ==
  /\ recent' = [called |-> TRUE, given |-> FALSE, limit |-> DISPLAY_LIMIT,
                value |-> getRecentActivities(DISPLAY_LIMIT, now)]
  /\ UNCHANGED <<logged, lbVars, aggVars, recVars, mileVars, syncVars, updVars, cfVars, getVars, bandVars, dbVars>>

InitLog == Init /\ ~firebaseActive

NextLog ==
  \/ LogMemberJoin
  \/ \E limit \in Limits : GetRecentActivities(limit)
  \/ GetRecentActivitiesDefault

SpecLog == InitLog /\ [][NextLog]_vars

\* C24: the log holds at most 50 entries, the most recently logged ones,
\* newest first (beyond the cap the oldest is dropped), and
\* getRecentActivities(limit) returns the newest min(limit, size) of them in
\* that order.
C24_NewestFiftyNewestFirst ==
  /\ Len(activities) <= 50
  /\ Len(activities) = IF logged < 50 THEN logged ELSE 50
  /\ \A i \in DOMAIN activities : activities[i].id = logged - i + 1
  /\ recent.called =>
       /\ Len(recent.value) = IF recent.limit < Len(activities) THEN recent.limit
                              ELSE Len(activities)
       /\ \A i \in DOMAIN recent.value :
            /\ recent.value[i].id = activities[i].id
            /\ recent.value[i].timestamp = activities[i].timestamp
            /\ recent.value[i].memberName = activities[i].memberName
C24_Witness ==
  /\ logged = 52
  /\ Len(activities) = 50
  /\ Head(activities).id = 52
  /\ activities[50].id = 3
  /\ recent.called
  /\ recent.limit = 10
  /\ Len(recent.value) = 10

(***************************************************************************)
(* fetchCodeforcesStats on its own, over lists of submissions              *)
(* (server.js:163-257)                                                     *)
(***************************************************************************)

\* a problem without contestId whose index is that of Sum
Warmup == [contestId |-> 0, index |-> "A", name |-> "Warmup", tags |-> Tags(<<"dp">>)]

Submission(problem, verdict, creationTimeSeconds) ==
  [problem |-> problem, verdict |-> verdict, creationTimeSeconds |-> creationTimeSeconds]

\* the submissions the lists are made of: the same problem accepted twice,
\* on either side of a UTC midnight, and rejected; problems with two tags,
\* without tags, without contestId; and submissions that carry no problem
CfSubmissions ==
  { Submission(Sum, "OK", 86399),
    Submission(Sum, "OK", 86400),
    Submission(Sum, "WRONG_ANSWER", 86399),
    Submission(Path, "OK", 86400),
    Submission(Gym, "OK", SubmittedAt),
    Submission(Warmup, "OK", SubmittedAt),
    Submission(NULL, "OK", 86399),
    Submission(NULL, "WRONG_ANSWER", 86400) }
CfSubmissionLists == SeqsUpTo(CfSubmissions, MaxCfSubs)

\* fetchCodeforcesStats("tourist") whose three calls answer OK, user.status
\* with statusResult
FetchCodeforcesStats ==
  /\ ~cfStats.called
  /\ cfStats' =
       [ called |-> TRUE,
         result |-> fetchCodeforcesStats("tourist",
                      [ info |-> [kind |-> "OK"],
                        rating |-> [kind |-> "OK", result |-> <<1500, 1200>>],
                        status |-> [kind |-> "OK", result |-> statusResult] ]) ]
  /\ UNCHANGED <<statusResult, lbVars, aggVars, recVars, mileVars, syncVars, updVars, logVars,
                 getVars, bandVars, dbVars>>

InitCf ==
  /\ InitLeaderboard /\ InitAggIdle /\ InitRecIdle /\ InitClubIdle /\ InitMemberIdle
  /\ InitSyncIdle /\ InitUpdIdle /\ InitLogIdle /\ InitGetIdle /\ InitBandIdle /\ InitDbIdle
  /\ ~firebaseActive
  /\ statusResult \in CfSubmissionLists
  /\ cfStats = [called |-> FALSE]

NextCf == FetchCodeforcesStats

SpecCf == InitCf /\ [][NextCf]_vars

\* the submissions of statusResult with verdict OK, and those that carry a problem
OkSubs == { i \in DOMAIN statusResult : statusResult[i].verdict = "OK" }
Carrying == { i \in DOMAIN statusResult : statusResult[i].problem # NULL }
\* the UTC day a submission was created on, counted from 1970-01-01
DayOf(i) == statusResult[i].creationTimeSeconds \div 86400

\* the three figures, counting the submissions of the set counted as the OK ones
FiguresCount(counted) ==
  LET stats == cfStats.result
  IN /\ stats.totalProblemsSolved =
          Cardinality({ problemKey(statusResult[i].problem) : i \in OkSubs \cap Carrying })
     /\ IF Carrying = {} THEN stats.submissionAccuracy = NULL
        ELSE /\ stats.submissionAccuracy # NULL
             /\ FracEq(stats.submissionAccuracy,
                       Frac(Cardinality(counted), Cardinality(Carrying)))
     /\ \A i \in counted :
          /\ toDateKey(statusResult[i].creationTimeSeconds) \in DOMAIN stats.activityCalendar
          /\ stats.activityCalendar[toDateKey(statusResult[i].creationTimeSeconds)] =
               Cardinality({ j \in counted : DayOf(j) = DayOf(i) })
     /\ \A dateKey \in DOMAIN stats.activityCalendar :
          \E i \in counted : toDateKey(statusResult[i].creationTimeSeconds) = dateKey

\* C25 as stated: totalProblemsSolved is the number of distinct problem keys
\* among the OK submissions, submissionAccuracy is the OK submissions divided by
\* the submissions that carry a problem (null when there are none), and the
\* activityCalendar counts, for each UTC date, the OK submissions created on it.
C25_FiguresCountOkSubmissions == cfStats.called => FiguresCount(OkSubs)

\* C25, amended: the OK submissions counted by submissionAccuracy and by the
\* activityCalendar are those that carry a problem.
C25_FiguresCountOkSubmissionsWithProblem == cfStats.called => FiguresCount(OkSubs \cap Carrying)
C25_Witness ==
  /\ cfStats.called
  /\ statusResult = << Submission(Sum, "OK", 86399), Submission(NULL, "OK", 86399),
                       Submission(Sum, "OK", 86400) >>
  /\ cfStats.result.totalProblemsSolved = 1
  /\ FracEq(cfStats.result.submissionAccuracy, Frac(1, 1))
  /\ DOMAIN cfStats.result.activityCalendar =
       { [year |-> 1970, month |-> 1, day |-> 1], [year |-> 1970, month |-> 1, day |-> 2] }
  /\ cfStats.result.activityCalendar[[year |-> 1970, month |-> 1, day |-> 1]] = 1

\* the distinct solved problems that carry a tag
SolvedWith(tag) ==
  { problemKey(statusResult[i].problem) :
      i \in { k \in OkSubs \cap Carrying :
                /\ statusResult[k].problem.tags.array
                /\ \E t \in DOMAIN statusResult[k].problem.tags.items :
                     statusResult[k].problem.tags.items[t] = tag } }

\* C30: the solved count of every tag in tagStrengths is the number of
\* distinct solved problems carrying the tag, so never more than
\* totalProblemsSolved, and tagStrengths is ordered by solved count descending.
C30_TagCountsDistinctProblems ==
  cfStats.called =>
    LET stats == cfStats.result
    IN /\ \A i \in DOMAIN stats.tagStrengths :
            /\ stats.tagStrengths[i].solved = Cardinality(SolvedWith(stats.tagStrengths[i].tag))
            /\ stats.tagStrengths[i].solved <= stats.totalProblemsSolved
       /\ \A i, j \in DOMAIN stats.tagStrengths :
            i < j => stats.tagStrengths[i].solved >= stats.tagStrengths[j].solved

\* C26: a fetcher given an empty handle has returned null at once and makes
\* no network call, and aggregateStatsForHandles with all three handles empty
\* returns totalProblemsSolved 0, aggregatedAccuracy null and no platforms.
C26_EmptyHandleNoCall ==
  aggPc # "idle" =>
    /\ handles.codeforces = "" =>
         (cfP = Fulfilled(NULL) /\ ext.codeforces = "none"
            /\ \A c \in DOMAIN ext.calls : ext.calls[c] = "none")
    /\ handles.leetcode = "" => (lcP = Fulfilled(NULL) /\ ext.leetcode = "none")
    /\ handles.codechef = "" => (ccP = Fulfilled(NULL) /\ ext.codechef = "none")
    /\ (aggPc = "done" /\ handles = [codeforces |-> "", leetcode |-> "", codechef |-> ""]) =>
         /\ aggOut.state = "fulfilled"
         /\ aggOut.value.totalProblemsSolved = 0
         /\ aggOut.value.aggregatedAccuracy = NULL
         /\ aggOut.value.platforms = <<>>
C26_Witness ==
  /\ aggPc = "done"
  /\ handles = [codeforces |-> "", leetcode |-> "", codechef |-> ""]
  /\ aggOut.state = "fulfilled"
  /\ aggOut.value.platforms = <<>>
  /\ ext.codeforces = "none"

\* C27: fetchCodeforcesStats fails when the info call reports a non-OK
\* status, and when the info call reports OK it returns statistics however the
\* rating call and the status call ended (non-OK status, transport error,
\* unparsable body), with an empty rating history or no submissions for the
\* call that failed.
C27_RatingAndStatusFailuresTolerated ==
  ext.codeforces # "none" =>
    /\ ext.calls.info = "FAILED" => cfP = Rejected
    /\ ext.calls.info = "OK" =>
         /\ cfP.state = "fulfilled"
         /\ cfP.value.kind = "stats"
         /\ ext.calls.rating # "OK" => cfP.value.ratingHistory = <<>>
         /\ ext.calls.status # "OK" =>
              (cfP.value.totalProblemsSolved = 0 /\ cfP.value.submissionAccuracy = NULL)

\* the executions whose fetchCodeforcesStats call is in flight
Fetching(list) == { k \in DOMAIN list : list[k].pc = "fetch" }

\* C28: the members of a refresh are fetched one after another: at most one
\* Codeforces fetch of the leaderboard is in flight at any time, and a fetch
\* starts only when none is in flight and 500 ms have passed since the loop
\* reached its pause, which it does when the fetch before has settled.
C28_Step ==
  /\ Cardinality(Fetching(execs')) <= 1
  /\ fetchCalls' # fetchCalls =>
       /\ fetchCalls' = fetchCalls + 1
       /\ Fetching(execs) = {}
       /\ \E k \in DOMAIN execs :
            /\ execs[k].pc = "delay"
            /\ execs'[k].pc = "fetch"
            /\ now' >= execs[k].delayUntil
  /\ \A k \in DOMAIN execs' :
       (execs'[k].pc = "delay" /\ (k \notin DOMAIN execs \/ execs[k].pc # "delay")) =>
         /\ execs'[k].delayUntil = now' + 500
         /\ Fetching(execs') = {}
C28_OneFetchAtATime == [][C28_Step]_vars
C28_Witness ==
  /\ fetchCalls = 2
  /\ \E k \in Fetching(execs) :
       /\ execs[k].idx = 2
       /\ Len(execs[k].results) = 1
       /\ now >= StartNow + STARTUP_MS + 2 * DELAY_MS

\* C29: a refresh that ends puts an error row on the leaderboard for a member
\* only when the leaderboard it replaces had no row with data for that member.
C29_Step ==
  stamps' = stamps + 1 =>
    \A i \in DOMAIN leaderboardCache'.data :
      "error" \in DOMAIN leaderboardCache'.data[i] =>
        ~ \E j \in DOMAIN leaderboardCache.data :
            /\ leaderboardCache.data[j].userId = leaderboardCache'.data[i].userId
            /\ "error" \notin DOMAIN leaderboardCache.data[j]
C29_FailedFetchKeepsRow == [][C29_Step]_vars

\* C31: for every problem of the catalog a call of getRecommendations works
\* on, the key the recommender computes equals the key fetchCodeforcesStats
\* stores for an accepted submission of it, so no problem of the user's solved
\* set is returned.
C31_SameKeyAsFetcher ==
  (recOut.sent /\ recOut.kind = "list" /\ recognized(recOut.userStats)) =>
    /\ \A n \in DOMAIN recOut.allProblems :
         pid(recOut.allProblems[n]) = problemKey(recOut.allProblems[n])
    /\ \A i \in DOMAIN recOut.list :
         \A n \in DOMAIN recOut.allProblems :
           ( /\ recOut.allProblems[n].contestId = recOut.list[i].contestId
             /\ recOut.allProblems[n].index = recOut.list[i].index
             /\ recOut.allProblems[n].name = recOut.list[i].title ) =>
             problemKey(recOut.allProblems[n]) \notin recOut.userStats.solvedProblems

\* C32: the cached catalog, its problems in their order and its stamp, changes
\* only in a step in which a catalog fetch answered OK, and then to that
\* answer stamped with the present time; a call served from the cache, a
\* fetch that threw or answered non-OK, and the filtering and shuffling of any
\* call leave it as it was.
C32_Step ==
  /\ problemSetCache' # problemSetCache =>
       /\ recOut'.sent
       /\ recOut'.catalog = "fetched"
       /\ problemSetCache'.lastUpdated = now'
       /\ recOut'.kind = "list" => recOut'.allProblems = problemSetCache'.problems
  /\ (recOut'.sent /\ recOut'.catalog # "fetched") => problemSetCache' = problemSetCache
C33_Step ==
  LET early == upd.pc \in {"getMember", "saveMember"} /\ upd'.pc # "fetchAllMembers"
      notFound == upd.pc = "getMember" /\ memberAt(upd.memberId) = 0 /\ upd' # upd
      saveFailed == upd.pc = "saveMember" /\ upd'.pc = "ended"
  IN /\ (notFound \/ saveFailed) => (upd'.pc = "ended" /\ upd'.outcome = THROWN)
     /\ early =>
          /\ UNCHANGED <<members, membersWrites, activities, cachedClubData, lastSyncTime,
                         savedClubData, syncStarted, syncFetching, syncSaving>>
          /\ syncOut'.step = "none"
          /\ upd'.pc = "ended" => (upd'.outcome = THROWN /\ upd'.steps = <<>>)
C33_FailedUpdateChangesNothing == [][C33_Step]_vars
C33_Witness ==
  /\ upd.pc = "ended"
  /\ upd.outcome = THROWN
  /\ upd.currentMember # NULL
  /\ upd.oldProblems < 50
  /\ upd.newProblems = 50
  /\ upd.steps = <<>>
  /\ activities = <<>>
  /\ cachedClubData = NULL
C33_WitnessNotFound ==
  /\ upd.pc = "ended"
  /\ upd.outcome = THROWN
  /\ upd.memberId = "9"
  /\ upd.currentMember = NULL
  /\ activities = <<>>

\* C34: when the write of the second of two overlapping syncs succeeds after
\* the write of the first one succeeded (the persisted data was then the
\* cached snapshot) and nothing is left in flight, the persisted club data is
\* the cached snapshot.
C34_Step ==
  ( /\ syncStarted = 2
    /\ savedClubData # NULL
    /\ savedClubData = cachedClubData
    /\ syncOut'.step = "ended"
    /\ syncOut'.writeOk
    /\ syncFetching' = 0
    /\ syncSaving' = EmptyBag ) =>
    savedClubData' = cachedClubData'
MaxGets == 2

\* activityLogger.js:374
CACHE_TTL == 5 * 60 * 1000

\* getClubData(db, forceRefresh): the cached data, or performFullSync(db) up
\* to await fetchAllMembers(db) (activityLogger.js:245-250); the sync goes on
\* with MembersFetched and ClubDataSaved
GetClubData_IgnoreForce(forceRefresh) ==
  /\ getStarted < MaxGets
  /\ getStarted' = getStarted + 1
  /\ noSyncOut
  /\ IF cachedClubData # NULL /\ lastSyncTime # 0
        /\ now - lastSyncTime < CACHE_TTL
     THEN /\ got' = [called |-> TRUE, forceRefresh |-> forceRefresh, path |-> "cached",
                     value |-> cachedClubData]
          /\ UNCHANGED <<syncStarted, syncFetching>>
     ELSE /\ syncStarted < MaxSyncs
          /\ syncStarted' = syncStarted + 1
          /\ syncFetching' = syncFetching + 1
          /\ got' = [called |-> TRUE, forceRefresh |-> forceRefresh, path |-> "sync"]
  /\ UNCHANGED <<members, membersWrites, cachedClubData, lastSyncTime, activities,
                 savedClubData, syncSaving, lbVars, aggVars, recVars, mileVars, updVars,
                 logVars, cfVars, bandVars, dbVars>>
GetClubData(forceRefresh) ==
  /\ getStarted < MaxGets
  /\ getStarted' = getStarted + 1
  /\ noSyncOut
  /\ IF ~forceRefresh /\ cachedClubData # NULL /\ lastSyncTime # 0
        /\ now - lastSyncTime < CACHE_TTL
     THEN /\ got' = [called |-> TRUE, forceRefresh |-> forceRefresh, path |-> "cached",
                     value |-> cachedClubData]
          /\ UNCHANGED <<syncStarted, syncFetching>>
     ELSE /\ syncStarted < MaxSyncs
          /\ syncStarted' = syncStarted + 1
          /\ syncFetching' = syncFetching + 1
          /\ got' = [called |-> TRUE, forceRefresh |-> forceRefresh, path |-> "sync"]
  /\ UNCHANGED <<members, membersWrites, cachedClubData, lastSyncTime, activities,
                 savedClubData, syncSaving, lbVars, aggVars, recVars, mileVars, updVars,
                 logVars, cfVars, bandVars, dbVars>>

\* time passes while no sync is in flight: just under the cache's lifetime, or
\* the lifetime exactly
GetDeltas == {CACHE_TTL - 1, CACHE_TTL}
GetTick(d) ==
  /\ ticks < MaxTicks
  /\ syncFetching = 0
  /\ syncSaving = EmptyBag
  /\ now' = now + d
  /\ ticks' = ticks + 1
  /\ noSyncOut
  /\ UNCHANGED <<firebaseActive, users, leaderboardCache, timerPending, execs, stamps,
                 fetchCalls, response, readStarted, aggVars, recVars, mileVars,
                 members, membersWrites, cachedClubData, lastSyncTime, activities,
                 savedClubData, syncStarted, syncFetching, syncSaving, updVars, logVars,
                 cfVars, getVars, bandVars, dbVars>>

InitGet == InitSync

NextGet ==
  \/ \E forceRefresh \in BOOLEAN : GetClubData(forceRefresh)
  \/ \E readOk \in BOOLEAN : MembersFetched(readOk)
  \/ \E clubData \in BagToSet(syncSaving), writeOk \in BOOLEAN : ClubDataSaved(clubData, writeOk)
  \/ \E d \in GetDeltas : GetTick(d)

SpecGet == InitGet /\ [][NextGet]_vars

\* C35: a call of getClubData without forceRefresh, made while a snapshot is
\* cached whose stamp is less than 5 minutes old, returns that snapshot and
\* starts no sync and no read of the members; every other call (forceRefresh,
\* nothing cached, or a snapshot 5 minutes old or older) starts exactly one
\* full sync.
C35_Step ==
  getStarted' = getStarted + 1 =>
    LET fresh == /\ cachedClubData # NULL
                 /\ now - cachedClubData.lastSyncTime < CACHE_TTL
    IN IF ~got'.forceRefresh /\ fresh
       THEN /\ got'.path = "cached"
            /\ got'.value = cachedClubData
            /\ UNCHANGED <<syncStarted, syncFetching, syncSaving, cachedClubData,
                           lastSyncTime, savedClubData, activities, members>>
       ELSE /\ got'.path = "sync"
            /\ syncStarted' = syncStarted + 1
            /\ syncFetching' = syncFetching + 1
C35_CachedWhileFreshElseOneSync == [][C35_Step]_vars
C35_Witness ==
  /\ got.called
  /\ ~got.forceRefresh
  /\ got.path = "cached"
  /\ got.value = cachedClubData
  /\ now - lastSyncTime = CACHE_TTL - 1
  /\ syncStarted = 1
C35_WitnessStale ==
  /\ got.called
  /\ ~got.forceRefresh
  /\ got.path = "sync"
  /\ cachedClubData # NULL
  /\ now - lastSyncTime = CACHE_TTL
  /\ syncStarted = 2
C35_WitnessForced ==
  /\ got.called
  /\ got.forceRefresh
  /\ got.path = "sync"
  /\ cachedClubData # NULL
  /\ now = lastSyncTime
  /\ syncStarted = 2

(***************************************************************************)
(* The growth band of getRecommendations (recommendations.js:35-66)        *)
(***************************************************************************)

TopRating == 3500

\* Codeforces statistics with nothing solved: unrated, or rated r
BandStats ==
  { cfStatsObject("tourist", <<>>, <<>>) }
    \cup { cfStatsObject("tourist", <<>>, <<r>>) : r \in 0..TopRating }

\* getRecommendations(userStats) past its catalog (recommendations.js:35-70),
\* over a catalog of one problem rated rating (0 for none)
BandCall(rating) ==
  /\ LET allProblems == << CatalogProblem(1, "A", "Sum", rating) >>
         candidates == candidatesOf(allProblems, bandStats)
     IN bandOut' = [ called |-> TRUE,
                     min |-> minRating(bandStats),
                     max |-> maxRating(bandStats),
                     allProblems |-> allProblems,
                     recommended |-> Len(sliceTo(candidates, SLICE_END)) ]
  /\ UNCHANGED <<bandStats, lbVars, aggVars, recVars, mileVars, syncVars, updVars, logVars,
                 cfVars, getVars, dbVars>>

InitBand ==
  /\ InitLeaderboard /\ InitAggIdle /\ InitRecIdle /\ InitClubIdle /\ InitMemberIdle
  /\ InitSyncIdle /\ InitUpdIdle /\ InitLogIdle /\ InitCfIdle /\ InitGetIdle /\ InitDbIdle
  /\ ~firebaseActive
  /\ bandStats \in BandStats
  /\ bandOut = [called |-> FALSE]

NextBand ==
  \E rating \in {0, 800, minRating(bandStats), maxRating(bandStats), 3500} : BandCall(rating)

SpecBand == InitBand /\ [][NextBand]_vars

\* C36: for every user, unrated or rated 0 to 3400, the lower end of the
\* growth band is at most its upper end, and a catalog whose problem is rated
\* inside the band (and unsolved) gives at least one recommendation.
C36_BandNeverEmpty ==
  (bandOut.called /\ currentRating(bandStats) <= 3400) =>
    /\ bandOut.min <= bandOut.max
    /\ ( /\ bandOut.allProblems[1].rating >= bandOut.min
         /\ bandOut.allProblems[1].rating <= bandOut.max ) => bandOut.recommended >= 1

\* C36, amended: the growth band is non-empty exactly for the unrated user and
\* for ratings 400 to 3400, and there a catalog whose problem is rated inside
\* the band (and unsolved) gives a recommendation; below 400 the upper end
\* r + 400 is under the lower end 800 and nothing is recommended.
C36_BandNonEmptyFrom400 ==
  bandOut.called =>
    LET r == currentRating(bandStats)
        inside == /\ bandOut.allProblems[1].rating >= bandOut.min
                  /\ bandOut.allProblems[1].rating <= bandOut.max
    IN /\ (r >= 400 /\ r <= 3400) <=> bandOut.min <= bandOut.max
       /\ inside <=> bandOut.recommended = 1
       /\ r < 400 => (bandOut.min = 800 /\ bandOut.max = r + 400 /\ bandOut.recommended = 0)
C36_Witness ==
  /\ bandOut.called
  /\ currentRating(bandStats) = 400
  /\ bandOut.min = 800
  /\ bandOut.max = 800
  /\ bandOut.allProblems[1].rating = 800
  /\ bandOut.recommended = 1
C36_WitnessUnrated ==
  /\ bandOut.called
  /\ bandStats.ratingHistory = <<>>
  /\ bandOut.min = 900
  /\ bandOut.max = 1200
  /\ bandOut.recommended = 1

(***************************************************************************)
(* The user store with Firebase active: db.init() and the register handler *)
(* (db.js:29-31, 52-97, 116-132; server.js:38-39, 391-427).  Each action   *)
(* is the code between two awaits; a read answers with the records the     *)
(* database holds when it answers.                                         *)
(***************************************************************************)

MaxRegs == 2

StoredUser(id, email, role) == [id |-> id, email |-> email, role |-> role]

\* db.js:10-27
seedUsers ==
  << StoredUser(1, "ravi.sharma@tsap.club", "admin"),
     StoredUser(2, "aarpan.lohora@tsap.club", "member") >>

\* the records the database holds when the process starts: none, the seeded
\* ones, or those and a user registered by an earlier run
DbContents ==
  { {},
    { seedUsers[1], seedUsers[2] },
    { seedUsers[1], seedUsers[2], StoredUser(3, "ben@tsap.club", "member") } }

\* the addresses the register requests carry
Emails == {"asha@tsap.club", "Asha@TSAP.club", "ravi.sharma@tsap.club"}

\* String.prototype.toLowerCase over the addresses of the model
toLowerCase(email) == IF email = "Asha@TSAP.club" THEN "asha@tsap.club" ELSE email

idsOf(records) == { u.id : u \in records }
arrayUsers == { usersArray[i] : i \in DOMAIN usersArray }

\* users.reduce((max, u) => Math.max(max, u.id || 0), 0) (db.js:128)
maxId(records) ==
  IF records = {} THEN 0 ELSE CHOOSE m \in idsOf(records) : \A i \in idsOf(records) : i <= m

\* admin.database().ref(`users/${user.id}`).set(user)
setUser(records, user) == { u \in records : u.id # user.id } \cup {user}

\* db.getAllUsers() (db.js:87-97): the records, or the array when the read failed
getAllUsers(readOk) == IF readOk THEN usersRef ELSE arrayUsers

\* db.getUserByEmail(email) found a user (db.js:52-69): among the records, or
\* in the array when the read failed
getUserByEmail(email, readOk) ==
  \E u \in (IF readOk THEN usersRef ELSE arrayUsers) :
    toLowerCase(u.email) = toLowerCase(email)

\* getAllUsers answers db.init() (db.js:119-130): an empty database is seeded,
\* up to the first await set; otherwise nextUserId follows the largest id read
DbInitRead(readOk) ==
  /\ dbInit.pc = "getAllUsers"
  /\ LET current == getAllUsers(readOk)
     IN IF current = {}
        THEN /\ dbInit' = [pc |-> "seeding", idx |-> 1]
             /\ UNCHANGED nextUserId
        ELSE /\ dbInit' = [pc |-> "done"]
             /\ nextUserId' = maxId(current) + 1
  /\ UNCHANGED <<usersRef, usersArray, reg, lbVars, aggVars, recVars, mileVars,
                 syncVars, updVars, logVars, cfVars, getVars, bandVars>>

\* a seeding write settles (db.js:122-125): a failed one rejects init
\* (server.js:39 logs it)
DbSeedSet(writeOk) ==
  /\ dbInit.pc = "seeding"
  /\ IF ~writeOk
     THEN /\ dbInit' = [pc |-> "failed"]
          /\ UNCHANGED <<usersRef, nextUserId>>
     ELSE /\ usersRef' = setUser(usersRef, seedUsers[dbInit.idx])
          /\ IF dbInit.idx < Len(seedUsers)
             THEN /\ dbInit' = [pc |-> "seeding", idx |-> dbInit.idx + 1]
                  /\ UNCHANGED nextUserId
             ELSE /\ dbInit' = [pc |-> "done"]
                  /\ nextUserId' = Len(seedUsers) + 1
  /\ UNCHANGED <<usersArray, reg, lbVars, aggVars, recVars, mileVars,
                 syncVars, updVars, logVars, cfVars, getVars, bandVars>>

\* POST /api/auth/register with name, email and password, up to await
\* db.getUserByEmail (server.js:391-397)
RegisterCall(email) ==
  /\ Len(reg) < MaxRegs
  /\ reg' = Append(reg, [pc |-> "getUserByEmail", email |-> email])
  /\ UNCHANGED <<usersRef, usersArray, nextUserId, dbInit, lbVars, aggVars, recVars,
                 mileVars, syncVars, updVars, logVars, cfVars, getVars, bandVars>>

\* getUserByEmail answers (server.js:397-403): 400 when a user was found,
\* else on to await db.getAllUsers
EmailGot(r, readOk) ==
  /\ reg[r].pc = "getUserByEmail"
  /\ reg' = [reg EXCEPT ![r] =
               IF getUserByEmail(reg[r].email, readOk)
               THEN [pc |-> "done", email |-> reg[r].email, status |-> 400]
               ELSE [pc |-> "getAllUsers", email |-> reg[r].email]]
  /\ UNCHANGED <<usersRef, usersArray, nextUserId, dbInit, lbVars, aggVars, recVars,
                 mileVars, syncVars, updVars, logVars, cfVars, getVars, bandVars>>

\* getAllUsers answers the handler, which calls db.createUser up to its await
\* set (server.js:402-416, db.js:71-77)
AllUsersGot(r, readOk) ==
  /\ reg[r].pc = "getAllUsers"
  /\ LET role == IF getAllUsers(readOk) = {} THEN "admin" ELSE "member"
         newUser == StoredUser(nextUserId, reg[r].email, role)
     IN reg' = [reg EXCEPT ![r] = [pc |-> "set", email |-> reg[r].email,
                                   newUser |-> newUser]]
  /\ nextUserId' = nextUserId + 1
  /\ UNCHANGED <<usersRef, usersArray, dbInit, lbVars, aggVars, recVars,
                 mileVars, syncVars, updVars, logVars, cfVars, getVars, bandVars>>

\* the write of createUser settles (db.js:77-84): the user joins the array
\* whether it succeeded or not, and the handler answers (server.js:418-426)
UserSet(r, writeOk) ==
  /\ reg[r].pc = "set"
  /\ usersRef' = IF writeOk THEN setUser(usersRef, reg[r].newUser) ELSE usersRef
  /\ usersArray' = Append(usersArray, reg[r].newUser)
  /\ reg' = [reg EXCEPT ![r] = [pc |-> "done", email |-> reg[r].email,
                                newUser |-> reg[r].newUser, status |-> 200]]
  /\ UNCHANGED <<nextUserId, dbInit, lbVars, aggVars, recVars,
                 mileVars, syncVars, updVars, logVars, cfVars, getVars, bandVars>>

\* the module is loaded (db.js:29-31) over any contents of the database, and
\* db.init() has been called and awaits getAllUsers (server.js:39, db.js:119)
InitDb ==
  /\ InitLeaderboard /\ InitAggIdle /\ InitRecIdle /\ InitClubIdle /\ InitMemberIdle
  /\ InitSyncIdle /\ InitUpdIdle /\ InitLogIdle /\ InitCfIdle /\ InitGetIdle /\ InitBandIdle
  /\ firebaseActive
  /\ users = <<>>
  /\ usersRef \in DbContents
  /\ usersArray = seedUsers
  /\ nextUserId = Len(seedUsers) + 1
  /\ dbInit = [pc |-> "getAllUsers"]
  /\ reg = <<>>

NextDb ==
  \/ \E readOk \in BOOLEAN : DbInitRead(readOk)
  \/ \E writeOk \in BOOLEAN : DbSeedSet(writeOk)
  \/ \E email \in Emails : RegisterCall(email)
  \/ \E r \in DOMAIN reg, readOk \in BOOLEAN : EmailGot(r, readOk)
  \/ \E r \in DOMAIN reg, readOk \in BOOLEAN : AllUsersGot(r, readOk)
  \/ \E r \in DOMAIN reg, writeOk \in BOOLEAN : UserSet(r, writeOk)

SpecDb == InitDb /\ [][NextDb]_vars

\* C37: a register request never stores a user while the database holds a
\* user that another register request stored under the same address, compared
\* without case: the later of two such requests is rejected and creates no
\* user, so no two registered users share an address.
C37_Step ==
  \A r \in DOMAIN reg :
    (reg[r].pc = "set" /\ reg'[r].pc = "done" /\ usersRef' # usersRef) =>
      ~\E q \in DOMAIN reg :
         /\ q # r
         /\ reg[q].pc = "done"
         /\ reg[q].status = 200
         /\ reg[q].newUser \in usersRef
         /\ reg[q].newUser.id # reg[r].newUser.id
         /\ toLowerCase(reg[q].newUser.email) = toLowerCase(reg[r].newUser.email)
C37_EmailsUnique == [][C37_Step]_vars

\* C38: the id createUser assigns is held by no user of the database or of
\* the array, nor by a user another createUser is writing.
C38_Step ==
  \A r \in DOMAIN reg :
    (reg[r].pc = "getAllUsers" /\ reg'[r].pc = "set") =>
      /\ reg'[r].newUser.id \notin idsOf(usersRef \cup arrayUsers)
      /\ \A q \in DOMAIN reg :
           (q # r /\ reg[q].pc = "set") => reg[q].newUser.id # reg'[r].newUser.id
C38_FreshId == [][C38_Step]_vars
====
